---- MODULE Spec2Model ----
(***************************************************************************)
(* A model of the Motorsport Manager save-file patch engine                *)
(* (SaveFixer/src/SaveFile.cpp): the container header, the block codec,    *)
(* the JSON navigator, the driver extraction and the patch writer.         *)
(*                                                                         *)
(* Text buffers (std::u8string_view) are TLA+ strings; offsets are the     *)
(* code's, counted from 0.  File bytes (std::span<std::byte>) are          *)
(* sequences of numbers 0..255.                                            *)
(***************************************************************************)
EXTENDS Integers, Sequences, FiniteSets, TLC

VARIABLES
    file,       \* the bytes of the save file that is opened
    header_fields,     \* SpecHeader: the header fields the file was made with
    parsed_header,     \* SpecHeader: what read_save_file_header made of the file
    opened,     \* how the constructor of SaveFile ended on the file
    session,    \* the SaveFile object: its buffers, save name place and drivers
    uncompressed_output,     \* the UncompressedOutput of the latest write of these
                             \* positions, and whether an earlier write came before it
    written,    \* the container that write produced
    reopened,   \* the SaveFile object made by opening the written container
    window,     \* SpecGui: the controls of the SaveFixerWindow
    fs,         \* SpecFs: the files at the paths write touches, and where write is
    buffer,     \* SpecQuote, SpecJson: the text that is navigated
    document,   \* SpecJson: the JSON value that buffer is the text of
    nav,        \* SpecQuote, SpecJson: what the navigator returned on buffer
    com         \* SpecDialog: the COM objects of a file dialog and their wrappers

vars ==
    <<file, header_fields, parsed_header, opened, session, uncompressed_output, written,
      reopened, window, fs, buffer, document, nav, com>>

(***************************************************************************)
(* Bounds of the model.                                                    *)
(***************************************************************************)
\* A file lacks at most MaxShortLen bytes at its end, and a file that ends
\* in its header lacks at most MaxShortLen bytes of the header, or is empty.
MaxShortLen == 2
\* The new save names are the strings of at most MaxNameLen letters "n".
MaxNameLen == 1

(***************************************************************************)
(* Text and bytes.                                                         *)
(***************************************************************************)
Min(a, b) == IF a < b THEN a ELSE b

\* json_data[ i ]
At(s, i) == SubSeq(s, i + 1, i + 1)

\* std::u8string_view::substr( pos, n ), pos <= size
Substr(s, pos, n) == SubSeq(s, pos + 1, Min(pos + n, Len(s)))

\* std::u8string_view::substr( pos )
SubstrFrom(s, pos) == SubSeq(s, pos + 1, Len(s))

\* The printable ASCII characters: codes 32 to 95, and codes 97 to 126 (a TLA+
\* string cannot hold the grave accent, code 96, which no save file needs).
AsciiLow ==
    " !\"#$%&'()*+,-./0123456789:;<=>?@ABCDEFGHIJKLMNOPQRSTUVWXYZ[\\]^_"

AsciiHigh == "abcdefghijklmnopqrstuvwxyz{|}~"

\* The byte of a character (reinterpret_cast between char8_t and std::byte).
OrdTable ==
    [c \in {SubSeq(AsciiLow, i, i) : i \in 1..Len(AsciiLow)}
            \cup {SubSeq(AsciiHigh, i, i) : i \in 1..Len(AsciiHigh)} |->
        IF \E i \in 1..Len(AsciiLow) : SubSeq(AsciiLow, i, i) = c
        THEN 31 + (CHOOSE i \in 1..Len(AsciiLow) : SubSeq(AsciiLow, i, i) = c)
        ELSE 96 + (CHOOSE i \in 1..Len(AsciiHigh) : SubSeq(AsciiHigh, i, i) = c)]

Ord(c) == OrdTable[c]

\* The character of a byte; a byte that is no printable character reads as
\* a space in the text.
Chr(b) ==
    IF b > 31 /\ b <= 31 + Len(AsciiLow)
    THEN SubSeq(AsciiLow, b - 31, b - 31)
    ELSE IF b > 96 /\ b <= 96 + Len(AsciiHigh)
    THEN SubSeq(AsciiHigh, b - 96, b - 96)
    ELSE " "

\* The bytes of a text, and the text of a sequence of bytes.
TextBytes(s) == [i \in 1..Len(s) |-> Ord(SubSeq(s, i, i))]

RECURSIVE BytesTextBetween(_, _, _)
BytesTextBetween(bytes, lo, hi) ==
    IF lo > hi THEN ""
    ELSE IF lo = hi THEN Chr(bytes[lo])
    ELSE LET mid == (lo + hi) \div 2 IN
         BytesTextBetween(bytes, lo, mid) \o BytesTextBetween(bytes, mid + 1, hi)

BytesText(bytes) == BytesTextBetween(bytes, 1, Len(bytes))

\* std::span::first( n ) and std::span::subspan( n ), within bounds
First(bytes, n) == SubSeq(bytes, 1, n)
Subspan(bytes, n) == SubSeq(bytes, n + 1, Len(bytes))

(***************************************************************************)
(* Errors: the descriptions the code throws (SaveFixerException).          *)
(***************************************************************************)
InvalidFormat == "is not a valid Motorsport Manager save file"
UnsupportedVersion == "save file version is unsupported"
TooLarge == "save file is too large"
CorruptPayload == "is invalid or corrupted"
InvalidSaveFile == "invalid save file"
SaveNameNotFound == "could not find save name in save file"
PlayerTeamNotFound == "could not find player team data in save file"
DriverCountMismatch == "unable to locate team's 3 drivers in save file"
InvalidPositionValue == "invalid driver position in save file"
InvalidDriverName == "invalid driver name in save file"
CopyOutOfMemory == "internal error: copy out of memory"
BadCopy == "internal error: bad copy"
OutputTooLarge == "output too large"
CompressionFailure == "internal error: compression failure"
\* Not an exception: the process reads outside the mapped file and is killed.
AccessViolation == "access violation"
Ok == "ok"

(***************************************************************************)
(* The container header.                                                   *)
(***************************************************************************)
mm_save_file_magic == 1932684653
mm_save_file_supported_version == 4
\* max_decompressed_buffer_size is 4 GiB
max_decompressed_buffer_size_GiB == 4
GiB == 1073741824
\* sizeof( SaveFileHeader ): six int fields
sizeof_SaveFileHeader == 24

\* An int as its four bytes, least significant first, and back.
Int32Bytes(v) ==
    << v % 256, (v \div 256) % 256, (v \div 65536) % 256, (v \div 16777216) % 256 >>

ReadInt32(bytes, off) ==
    LET b3 == bytes[off + 4] IN
    bytes[off + 1] + 256 * bytes[off + 2] + 65536 * bytes[off + 3]
        + 16777216 * (IF b3 >= 128 THEN b3 - 256 ELSE b3)

SaveFileHeader(magic, version, ci, di, cd, dd) ==
    [magic |-> magic, version |-> version,
     compressed_info_size |-> ci, decompressed_info_size |-> di,
     compressed_data_size |-> cd, decompressed_data_size |-> dd]

\* The header as it lies in the file.
HeaderBytes(h) ==
    Int32Bytes(h.magic) \o Int32Bytes(h.version)
        \o Int32Bytes(h.compressed_info_size) \o Int32Bytes(h.decompressed_info_size)
        \o Int32Bytes(h.compressed_data_size) \o Int32Bytes(h.decompressed_data_size)

\* reinterpret_cast< SaveFileHeader const * >( file_data.data() )
HeaderAt(file_data) ==
    SaveFileHeader(ReadInt32(file_data, 0), ReadInt32(file_data, 4),
                   ReadInt32(file_data, 8), ReadInt32(file_data, 12),
                   ReadInt32(file_data, 16), ReadInt32(file_data, 20))

\* size_t( a ) + size_t( b ) > max_decompressed_buffer_size, for a, b > 0,
\* computed in GiB and remainder so that no number passes 2^31.
ExceedsMaxDecompressed(a, b) ==
    LET q == (a \div GiB) + (b \div GiB) + (((a % GiB) + (b % GiB)) \div GiB)
        r == ((a % GiB) + (b % GiB)) % GiB
    IN  q > max_decompressed_buffer_size_GiB
        \/ (q = max_decompressed_buffer_size_GiB /\ r > 0)
\* read_save_file_header, were the version checked before the sizes
read_save_file_header_version_first(file_data) ==
    LET check(header) ==
            IF header.magic # mm_save_file_magic
            THEN [status |-> InvalidFormat]
            ELSE IF header.version # mm_save_file_supported_version
            THEN [status |-> UnsupportedVersion, version |-> header.version]
            ELSE IF \/ header.compressed_info_size <= 0
                    \/ header.decompressed_info_size <= 0
                    \/ header.compressed_data_size <= 0
                    \/ header.decompressed_data_size <= 0
            THEN [status |-> InvalidFormat]
            ELSE IF ExceedsMaxDecompressed(header.decompressed_info_size,
                                           header.decompressed_data_size)
            THEN [status |-> TooLarge]
            ELSE [status |-> Ok, header |-> header]
    IN  IF Len(file_data) < sizeof_SaveFileHeader
        THEN [status |-> InvalidFormat]
        ELSE check(HeaderAt(file_data))

\* read_save_file_header, were a size of 0 let through
read_save_file_header_zero_sizes(file_data) ==
    LET check(header) ==
            IF \/ header.magic # mm_save_file_magic
               \/ header.compressed_info_size < 0
               \/ header.decompressed_info_size < 0
               \/ header.compressed_data_size < 0
               \/ header.decompressed_data_size < 0
            THEN [status |-> InvalidFormat]
            ELSE IF header.version # mm_save_file_supported_version
            THEN [status |-> UnsupportedVersion, version |-> header.version]
            ELSE IF ExceedsMaxDecompressed(header.decompressed_info_size,
                                           header.decompressed_data_size)
            THEN [status |-> TooLarge]
            ELSE [status |-> Ok, header |-> header]
    IN  IF Len(file_data) < sizeof_SaveFileHeader
        THEN [status |-> InvalidFormat]
        ELSE check(HeaderAt(file_data))

\* read_save_file_header, were the decompressed sizes not tested for their
\* sign: a negative one becomes a huge size_t and the sum wraps around
read_save_file_header_signed_sizes(file_data) ==
    LET check(header) ==
            IF \/ header.magic # mm_save_file_magic
               \/ header.compressed_info_size <= 0
               \/ header.decompressed_info_size = 0
               \/ header.compressed_data_size <= 0
               \/ header.decompressed_data_size = 0
            THEN [status |-> InvalidFormat]
            ELSE IF header.version # mm_save_file_supported_version
            THEN [status |-> UnsupportedVersion, version |-> header.version]
            ELSE IF /\ header.decompressed_info_size > 0
                    /\ header.decompressed_data_size > 0
                    /\ ExceedsMaxDecompressed(header.decompressed_info_size,
                                              header.decompressed_data_size)
            THEN [status |-> TooLarge]
            ELSE [status |-> Ok, header |-> header]
    IN  IF Len(file_data) < sizeof_SaveFileHeader
        THEN [status |-> InvalidFormat]
        ELSE check(HeaderAt(file_data))

\* read_save_file_header: the header, or the error thrown.  version is the
\* number the UnsupportedVersion description carries.
read_save_file_header(file_data) ==
    LET check(header) ==
            IF \/ header.magic # mm_save_file_magic
               \/ header.compressed_info_size <= 0
               \/ header.decompressed_info_size <= 0
               \/ header.compressed_data_size <= 0
               \/ header.decompressed_data_size <= 0
            THEN [status |-> InvalidFormat]
            ELSE IF header.version # mm_save_file_supported_version
            THEN [status |-> UnsupportedVersion, version |-> header.version]
            ELSE IF ExceedsMaxDecompressed(header.decompressed_info_size,
                                           header.decompressed_data_size)
            THEN [status |-> TooLarge]
            ELSE [status |-> Ok, header |-> header]
    IN  IF Len(file_data) < sizeof_SaveFileHeader
        THEN [status |-> InvalidFormat]
        ELSE check(HeaderAt(file_data))

(***************************************************************************)
(* The block codec.  LZ4 is a third-party library; it is modelled by the   *)
(* blocks of its format that hold literals only: a token byte whose high   *)
(* four bits are the literal count (15: the count goes on in further       *)
(* bytes, each 255 until the last), then the literals.                     *)
(***************************************************************************)
RECURSIVE Lz4LengthBytes(_)
Lz4LengthBytes(n) == IF n >= 255 THEN <<255>> \o Lz4LengthBytes(n - 255) ELSE <<n>>

Lz4Block(text) ==
    LET n == Len(text) IN
    (IF n >= 15 THEN <<240>> \o Lz4LengthBytes(n - 15) ELSE <<16 * n>>)
        \o TextBytes(text)

\* LZ4_compressBound
LZ4_compressBound(n) == n + (n \div 255) + 16
\* lz4_compress, were the last byte of the input left out
lz4_compress_short(input_data, capacity) ==
    LET block == Lz4Block(Substr(input_data, 0, Len(input_data) - 1)) IN
    IF Len(block) > capacity
    THEN [status |-> CompressionFailure]
    ELSE [status |-> Ok, bytes |-> block]

\* lz4_compress: the compressed bytes, or the error thrown when LZ4 returns
\* 0 because the block does not fit the output buffer.
lz4_compress(input_data, capacity) ==
    LET block == Lz4Block(input_data) IN
    IF Len(block) > capacity
    THEN [status |-> CompressionFailure]
    ELSE [status |-> Ok, bytes |-> block]

\* Where the literals of a block start and how many the block announces:
\* <<offset of the first literal, count>>, or <<-1, -1>> when the count
\* runs past the end of the block.
RECURSIVE Lz4ReadLength(_, _, _)
Lz4ReadLength(bytes, i, acc) ==
    IF i > Len(bytes) THEN <<-1, -1>>
    ELSE IF bytes[i] = 255 THEN Lz4ReadLength(bytes, i + 1, acc + 255)
    ELSE <<i, acc + bytes[i]>>

\* LZ4_decompress_safe: the number of bytes decoded into a buffer of
\* out_size bytes, negative for a malformed block or one that does not fit.
LZ4_decompress_safe(compressed, out_size) ==
    IF Len(compressed) = 0 THEN -1
    ELSE LET token == compressed[1]
             lit == token \div 16
             len == IF lit = 15 THEN Lz4ReadLength(compressed, 2, 15) ELSE <<1, lit>>
         IN  IF token % 16 # 0 \/ len[1] < 0 THEN -1
             ELSE IF Len(compressed) - len[1] # len[2] THEN -1
             ELSE IF len[2] > out_size THEN -1
             ELSE len[2]

Lz4Literals(compressed) ==
    LET lit == compressed[1] \div 16
        len == IF lit = 15 THEN Lz4ReadLength(compressed, 2, 15) ELSE <<1, lit>>
    IN  BytesText(Subspan(compressed, len[1]))

\* lz4_decompress: the text, or the error thrown when the block does not
\* decode to exactly out_size bytes.
lz4_decompress(compressed, out_size) ==
    IF LZ4_decompress_safe(compressed, out_size) # out_size
    THEN [status |-> CorruptPayload]
    ELSE [status |-> Ok, text |-> Lz4Literals(compressed)]

(***************************************************************************)
(* Navigating the JSON data.  An offset result is a number >= 0; a throw   *)
(* of throw_for_invalid_json is MalformedJson, "not found" is npos.        *)
(***************************************************************************)
MalformedJson == -1
npos == -2

\* string_view_between: the text strictly between offsets a and b
string_view_between(s, a, b) == Substr(s, a + 1, (b - a) - 1)

\* json_data.find( pattern, start_pos ): the least offset >= start_pos where
\* pattern lies, or npos
Find(s, pattern, start_pos) ==
    LET hits == {i \in start_pos..(Len(s) - Len(pattern)) :
                    Substr(s, i, Len(pattern)) = pattern}
    IN  IF hits = {} THEN npos
        ELSE CHOOSE i \in hits : \A j \in hits : i <= j

RECURSIVE count_preceeding_backslashes_from(_, _, _)
count_preceeding_backslashes_from(json_data, offset, i) ==
    IF At(json_data, i) # "\\" THEN (offset - i) - 1
    ELSE IF i = 0 THEN offset - i
    ELSE count_preceeding_backslashes_from(json_data, offset, i - 1)

count_preceeding_backslashes(json_data, offset) ==
    IF offset = 0 THEN 0
    ELSE count_preceeding_backslashes_from(json_data, offset, offset - 1)

\* The loop of find_closing_quote at index i with its escaped flag.
RECURSIVE find_closing_quote_from(_, _, _)
find_closing_quote_from(json_data, i, escaped) ==
    IF i >= Len(json_data) THEN MalformedJson
    ELSE IF At(json_data, i) = "\\"
    THEN find_closing_quote_from(json_data, i + 1, ~escaped)
    ELSE IF At(json_data, i) = "\"" /\ ~escaped THEN i
    ELSE find_closing_quote_from(json_data, i + 1, FALSE)

\* find_closing_quote, were a quote escaped by the one character before it
find_closing_quote_after_one(json_data, offset_of_opening_quote) ==
    LET closing == {i \in (offset_of_opening_quote + 1)..(Len(json_data) - 1) :
                       At(json_data, i) = "\"" /\ At(json_data, i - 1) # "\\"}
    IN  IF closing = {} THEN MalformedJson
        ELSE CHOOSE i \in closing : \A j \in closing : i <= j

find_closing_quote(json_data, offset_of_opening_quote) ==
    find_closing_quote_from(json_data, offset_of_opening_quote + 1, FALSE)

\* The loop of rfind_opening_quote at index i.
RECURSIVE rfind_opening_quote_from(_, _)
rfind_opening_quote_from(json_data, i) ==
    LET is_quote == At(json_data, i) = "\""
        scan(escape_count) ==
            IF is_quote /\ escape_count = 0 THEN i
            ELSE IF is_quote /\ escape_count % 2 = 0 THEN MalformedJson
            ELSE IF i - escape_count = 0 THEN MalformedJson
            ELSE rfind_opening_quote_from(json_data, (i - escape_count) - 1)
    IN  scan(IF is_quote THEN count_preceeding_backslashes(json_data, i) ELSE 0)

\* rfind_opening_quote, were a quote escaped by any backslashes before it
rfind_opening_quote_any_backslash(json_data, offset_of_closing_quote) ==
    LET opening == {i \in 0..(offset_of_closing_quote - 1) :
                       At(json_data, i) = "\"" /\ (i = 0 \/ At(json_data, i - 1) # "\\")}
    IN  IF opening = {} THEN MalformedJson
        ELSE CHOOSE i \in opening : \A j \in opening : i >= j

rfind_opening_quote(json_data, offset_of_closing_quote) ==
    IF offset_of_closing_quote # 0
    THEN rfind_opening_quote_from(json_data, offset_of_closing_quote - 1)
    ELSE MalformedJson

\* The last element of a stack and the stack without it
Back(stack) == stack[Len(stack)]
PopBack(stack) == SubSeq(stack, 1, Len(stack) - 1)

\* The loop of find_closing_brace at index i with its stack of expected
\* closing braces.
RECURSIVE find_closing_brace_from(_, _, _)
find_closing_brace_from(json_data, i, closing_brace_stack) ==
    IF i >= Len(json_data) THEN MalformedJson
    ELSE LET c == At(json_data, i)
             after_string(q) ==
                 IF q = MalformedJson THEN MalformedJson
                 ELSE find_closing_brace_from(json_data, q + 1, closing_brace_stack)
         IN  IF c = "\""
             THEN after_string(find_closing_quote(json_data, i))
             ELSE IF c = "{" \/ c = "["
             THEN find_closing_brace_from(json_data, i + 1,
                      Append(closing_brace_stack, IF c = "{" THEN "}" ELSE "]"))
             ELSE IF c = "}" \/ c = "]"
             THEN IF c = Back(closing_brace_stack)
                  THEN IF Len(closing_brace_stack) = 1 THEN i
                       ELSE find_closing_brace_from(json_data, i + 1,
                                PopBack(closing_brace_stack))
                  ELSE MalformedJson
             ELSE find_closing_brace_from(json_data, i + 1, closing_brace_stack)

find_closing_brace(json_data, starting_offset, brace) ==
    find_closing_brace_from(json_data, starting_offset, <<brace>>)

\* The loop of rfind_opening_brace at index i with its stack of expected
\* opening braces; the step "if i == 0 throw, else --i" ends every round.
RECURSIVE rfind_opening_brace_from(_, _, _)
rfind_opening_brace_from(json_data, i, opening_brace_stack) ==
    LET c == At(json_data, i)
        after_string(q) ==
            IF q = MalformedJson \/ q = 0 THEN MalformedJson
            ELSE rfind_opening_brace_from(json_data, q - 1, opening_brace_stack)
    IN  IF c = "\""
        THEN after_string(rfind_opening_quote(json_data, i))
        ELSE IF c = "}" \/ c = "]"
        THEN IF i = 0 THEN MalformedJson
             ELSE rfind_opening_brace_from(json_data, i - 1,
                      Append(opening_brace_stack, IF c = "}" THEN "{" ELSE "["))
        ELSE IF c = "{" \/ c = "["
        THEN IF c = Back(opening_brace_stack)
             THEN IF Len(opening_brace_stack) = 1 THEN i
                  ELSE IF i = 0 THEN MalformedJson
                  ELSE rfind_opening_brace_from(json_data, i - 1,
                           PopBack(opening_brace_stack))
             ELSE MalformedJson
        ELSE IF i = 0 THEN MalformedJson
        ELSE rfind_opening_brace_from(json_data, i - 1, opening_brace_stack)

rfind_opening_brace(json_data, starting_offset, brace) ==
    rfind_opening_brace_from(json_data, starting_offset, <<brace>>)

\* find_matching_brace, were braces counted wherever they stand, also in
\* strings
RECURSIVE matching_brace_counted_from(_, _, _, _)
matching_brace_counted_from(json_data, i, step, depth) ==
    IF i < 0 \/ i >= Len(json_data) THEN MalformedJson
    ELSE LET c == At(json_data, i)
             now == IF c = "{" \/ c = "[" THEN depth + step
                    ELSE IF c = "}" \/ c = "]" THEN depth - step
                    ELSE depth
         IN  IF now = 0 THEN i
             ELSE matching_brace_counted_from(json_data, i + step, step, now)

find_matching_brace_counted(json_data, offset_of_brace) ==
    matching_brace_counted_from(json_data, offset_of_brace,
        IF At(json_data, offset_of_brace) = "{" \/ At(json_data, offset_of_brace) = "["
        THEN 1 ELSE -1, 0)

\* find_matching_brace.  The case of an opening brace has no break: when the
\* brace is the last character of the buffer, control falls through into the
\* case of a closing brace, which then looks backwards for a "[".
find_matching_brace(json_data, offset_of_brace) ==
    LET c == At(json_data, offset_of_brace) IN
    IF (c = "{" \/ c = "[") /\ offset_of_brace + 1 < Len(json_data)
    THEN find_closing_brace(json_data, offset_of_brace + 1, IF c = "{" THEN "}" ELSE "]")
    ELSE IF (c = "{" \/ c = "[" \/ c = "}" \/ c = "]") /\ offset_of_brace # 0
    THEN rfind_opening_brace(json_data, offset_of_brace - 1, IF c = "}" THEN "{" ELSE "[")
    ELSE MalformedJson

(***************************************************************************)
(* for_sibling_key_values_in_object.  The callback cannot change what the  *)
(* walk reads, so the walk is modelled by the calls it makes when the      *)
(* callback never stops it: visits, each the key and the offset of its     *)
(* value, in the order of the calls, and threw, whether the walk then      *)
(* ends in throw_for_invalid_json.  A callback that stops at a visit ends  *)
(* the walk there, before any later throw.                                 *)
(***************************************************************************)
\* "Skip the value" of the forward loop: the offset of the value's last
\* character
RECURSIVE forward_primitive_end(_, _)
forward_primitive_end(json_data, j) ==
    IF j >= Len(json_data) THEN MalformedJson
    ELSE IF At(json_data, j) = "," \/ At(json_data, j) = "}" THEN j - 1
    ELSE forward_primitive_end(json_data, j + 1)

forward_value_end(json_data, value_start_pos) ==
    LET c == At(json_data, value_start_pos) IN
    IF c = "\"" THEN find_closing_quote(json_data, value_start_pos)
    ELSE IF c = "{" \/ c = "[" THEN find_matching_brace(json_data, value_start_pos)
    ELSE forward_primitive_end(json_data, value_start_pos + 1)

\* The first loop, at index i
RECURSIVE forward_visits(_, _)
forward_visits(json_data, i) ==
    LET after_value(visit, value_end_pos) ==
            IF value_end_pos = MalformedJson
            THEN [visits |-> <<visit>>, threw |-> TRUE]
            ELSE LET n == value_end_pos + 1
                     with(rest) ==
                         [visits |-> <<visit>> \o rest.visits, threw |-> rest.threw]
                 IN  with(forward_visits(json_data,
                              IF n < Len(json_data) /\ At(json_data, n) = ","
                              THEN n + 1 ELSE n))
        after_key(key_end_quote_pos) ==
            IF key_end_quote_pos = MalformedJson
            THEN [visits |-> <<>>, threw |-> TRUE]
            ELSE IF \/ key_end_quote_pos + 2 >= Len(json_data)
                    \/ At(json_data, key_end_quote_pos + 1) # ":"
            THEN [visits |-> <<>>, threw |-> TRUE]
            ELSE after_value([key |-> string_view_between(json_data, i, key_end_quote_pos),
                              value |-> key_end_quote_pos + 2],
                             forward_value_end(json_data, key_end_quote_pos + 2))
    IN  IF ~(i < Len(json_data) /\ At(json_data, i) = "\"")
        THEN [visits |-> <<>>, threw |-> FALSE]
        ELSE after_key(find_closing_quote(json_data, i))

\* The start of the value that ends at value_end_pos, in the second loop
RECURSIVE backward_primitive_start(_, _)
backward_primitive_start(json_data, j) ==
    IF j = 0 THEN MalformedJson
    ELSE IF At(json_data, j - 1) = ":" THEN j
    ELSE backward_primitive_start(json_data, j - 1)

backward_value_start(json_data, value_end_pos) ==
    LET c == At(json_data, value_end_pos) IN
    IF c = "\"" THEN rfind_opening_quote(json_data, value_end_pos)
    ELSE IF c = "}" \/ c = "]" THEN find_matching_brace(json_data, value_end_pos)
    ELSE backward_primitive_start(json_data, value_end_pos)

\* The second loop, at index i
RECURSIVE backward_visits(_, _)
backward_visits(json_data, i) ==
    LET after_key(value_start_pos, key_start_quote_pos) ==
            IF key_start_quote_pos = MalformedJson \/ key_start_quote_pos = 0
            THEN [visits |-> <<>>, threw |-> TRUE]
            ELSE LET visit == [key |-> string_view_between(json_data, key_start_quote_pos,
                                                           value_start_pos - 2),
                               value |-> value_start_pos]
                     with(rest) ==
                         [visits |-> <<visit>> \o rest.visits, threw |-> rest.threw]
                 IN  with(backward_visits(json_data, key_start_quote_pos - 1))
        after_value(value_start_pos) ==
            IF value_start_pos = MalformedJson
            THEN [visits |-> <<>>, threw |-> TRUE]
            ELSE IF \/ value_start_pos < 3
                    \/ At(json_data, value_start_pos - 1) # ":"
                    \/ At(json_data, value_start_pos - 2) # "\""
            THEN [visits |-> <<>>, threw |-> TRUE]
            ELSE after_key(value_start_pos,
                           rfind_opening_quote(json_data, value_start_pos - 2))
    IN  IF ~(i # 0 /\ At(json_data, i) # "{")
        THEN [visits |-> <<>>, threw |-> FALSE]
        ELSE IF At(json_data, i) # ","
        THEN [visits |-> <<>>, threw |-> TRUE]
        ELSE after_value(backward_value_start(json_data, i - 1))

\* for_sibling_key_values_in_object, were the keys before the starting key
\* visited first
for_sibling_key_values_in_object_backward_first(json_data, start_offset) ==
    LET both(bwd, fwd) ==
            IF bwd.threw THEN bwd
            ELSE [visits |-> bwd.visits \o fwd.visits, threw |-> fwd.threw]
    IN  both(backward_visits(json_data, start_offset - 1),
             forward_visits(json_data, start_offset))

for_sibling_key_values_in_object(json_data, start_offset) ==
    LET both(fwd, bwd) ==
            IF fwd.threw THEN fwd
            ELSE [visits |-> fwd.visits \o bwd.visits, threw |-> bwd.threw]
    IN  both(forward_visits(json_data, start_offset),
             backward_visits(json_data, start_offset - 1))

\* for_key_values_in_object
for_key_values_in_object(json_data, object_opening_brace_offset) ==
    LET start_pos == object_opening_brace_offset + 1 IN
    IF start_pos < Len(json_data) /\ At(json_data, start_pos) = "\""
    THEN for_sibling_key_values_in_object(json_data, start_pos)
    ELSE IF start_pos < Len(json_data) /\ At(json_data, start_pos) = "}"
    THEN [visits |-> <<>>, threw |-> FALSE]
    ELSE [visits |-> <<>>, threw |-> TRUE]

\* lookup_value_in_object, were the key searched for as text after the brace
lookup_value_in_object_by_search(json_data, object_opening_brace_offset, sought_key) ==
    LET value_of(key_pos) ==
            IF key_pos = npos THEN npos ELSE key_pos + Len(sought_key) + 3
    IN  value_of(Find(json_data, "\"" \o sought_key \o "\":", object_opening_brace_offset))

\* lookup_value_in_object: the callback stops at the first visit whose key
\* is the sought key.  The value's offset, npos for std::nullopt, or
\* MalformedJson.
lookup_value_in_object(json_data, object_opening_brace_offset, sought_key) ==
    LET first_hit(walk) ==
            LET hits == {k \in 1..Len(walk.visits) : walk.visits[k].key = sought_key}
            IN  IF hits # {}
                THEN walk.visits[CHOOSE k \in hits : \A m \in hits : k <= m].value
                ELSE IF walk.threw THEN MalformedJson
                ELSE npos
    IN  first_hit(for_key_values_in_object(json_data, object_opening_brace_offset))

(***************************************************************************)
(* Finding the save name, the player team and its drivers.                 *)
(***************************************************************************)
\* SaveFile::DriverPosition
reserve == "reserve"
car1 == "car1"
car2 == "car2"
DriverPosition == {reserve, car1, car2}

\* SaveFile::Driver( driver_name, pos, offset )
Driver(driver_name, pos, offset) ==
    [name |-> driver_name, position |-> pos, original_position |-> pos,
     car_id_file_offset |-> offset]
\* get_save_name, were the place of the name to start at its opening quote
get_save_name_from_quote(save_info) ==
    LET save_info_obj_start == "\"saveInfo\":{"
        with_name(name_value_pos, name_closing_quote) ==
            IF name_value_pos = MalformedJson THEN [status |-> InvalidSaveFile]
            ELSE IF name_value_pos = npos \/ At(save_info, name_value_pos) # "\""
            THEN [status |-> SaveNameNotFound]
            ELSE IF name_closing_quote = MalformedJson THEN [status |-> InvalidSaveFile]
            ELSE [status |-> Ok,
                  save_name_offset |-> name_value_pos,
                  save_name_size |-> name_closing_quote - name_value_pos]
        at_value(name_value_pos) ==
            with_name(name_value_pos, find_closing_quote(save_info, name_value_pos))
        at_key(save_info_key_start) ==
            IF save_info_key_start = npos THEN [status |-> SaveNameNotFound]
            ELSE at_value(lookup_value_in_object(save_info,
                              save_info_key_start + Len(save_info_obj_start) - 1, "name"))
    IN  at_key(Find(save_info, save_info_obj_start, 0))

\* SaveFile::get_save_name: save_name_offset and save_name_size, or the
\* error thrown
get_save_name(save_info) ==
    LET save_info_obj_start == "\"saveInfo\":{"
        with_name(name_value_pos, name_closing_quote) ==
            IF name_value_pos = MalformedJson THEN [status |-> InvalidSaveFile]
            ELSE IF name_value_pos = npos \/ At(save_info, name_value_pos) # "\""
            THEN [status |-> SaveNameNotFound]
            ELSE IF name_closing_quote = MalformedJson THEN [status |-> InvalidSaveFile]
            ELSE [status |-> Ok,
                  save_name_offset |-> name_value_pos + 1,
                  save_name_size |-> name_closing_quote - (name_value_pos + 1)]
        at_value(name_value_pos) ==
            with_name(name_value_pos, find_closing_quote(save_info, name_value_pos))
        at_key(save_info_key_start) ==
            IF save_info_key_start = npos THEN [status |-> SaveNameNotFound]
            ELSE at_value(lookup_value_in_object(save_info,
                              save_info_key_start + Len(save_info_obj_start) - 1, "name"))
    IN  at_key(Find(save_info, save_info_obj_start, 0))

\* get_player_team_id: the id, or the error thrown
get_player_team_id(json_data) ==
    LET player_team_obj_start == "\"mPlayerTeam\":{"
        with_id(id_value_pos, value_closing_quote) ==
            IF id_value_pos = MalformedJson THEN [status |-> InvalidSaveFile]
            ELSE IF id_value_pos = npos \/ At(json_data, id_value_pos) # "\""
            THEN [status |-> PlayerTeamNotFound]
            ELSE IF value_closing_quote = MalformedJson THEN [status |-> InvalidSaveFile]
            ELSE [status |-> Ok,
                  id |-> string_view_between(json_data, id_value_pos, value_closing_quote)]
        at_value(id_value_pos) ==
            with_id(id_value_pos, find_closing_quote(json_data, id_value_pos))
        at_key(player_team_key_start) ==
            IF player_team_key_start = npos THEN [status |-> PlayerTeamNotFound]
            ELSE at_value(lookup_value_in_object(json_data,
                              player_team_key_start + Len(player_team_obj_start) - 1, "$id"))
    IN  at_key(Find(json_data, player_team_obj_start, 0))

\* for_each_employeer_team_ref: the offsets f is called with, in order
RECURSIVE employeer_team_refs_from(_, _, _)
employeer_team_refs_from(json_data, employeer_team_ref_str, start_pos) ==
    LET from(ref_pos) ==
            IF ref_pos = npos THEN <<>>
            ELSE <<ref_pos>>
                     \o employeer_team_refs_from(json_data, employeer_team_ref_str, ref_pos + 1)
    IN  from(Find(json_data, employeer_team_ref_str, start_pos))

for_each_employeer_team_ref(json_data, team_id) ==
    employeer_team_refs_from(json_data,
        "\"mEmployeerTeam\":{\"$ref\":\"" \o team_id \o "\"}", 0)

\* find_employeer_team_ref_contract_offset: the offset of the "contract" key,
\* npos, or MalformedJson
find_employeer_team_ref_contract_offset(json_data, employeer_team_ref_offset) ==
    LET contract_key == "\"contract\":"
        key_before(object_start_pos) ==
            IF object_start_pos = MalformedJson THEN MalformedJson
            ELSE IF /\ object_start_pos > Len(contract_key)
                    /\ Substr(json_data, object_start_pos - Len(contract_key),
                              Len(contract_key)) = contract_key
            THEN object_start_pos - Len(contract_key)
            ELSE npos
    IN  IF employeer_team_ref_offset = 0 THEN npos
        ELSE key_before(rfind_opening_brace(json_data, employeer_team_ref_offset - 1, "{"))

\* parse_driver_position: the position, or the error thrown
parse_driver_position(json_data, value_offset) ==
    LET end(k) == At(json_data, value_offset + k) = ","
                    \/ At(json_data, value_offset + k) = "}"
    IN  IF ~(value_offset + 2 < Len(json_data)) THEN [status |-> InvalidSaveFile]
        ELSE IF At(json_data, value_offset) = "-" /\ At(json_data, value_offset + 1) = "1"
                /\ end(2)
        THEN [status |-> Ok, position |-> reserve]
        ELSE IF At(json_data, value_offset) = "0" /\ end(1)
        THEN [status |-> Ok, position |-> car1]
        ELSE IF At(json_data, value_offset) = "1" /\ end(1)
        THEN [status |-> Ok, position |-> car2]
        ELSE [status |-> InvalidPositionValue]

\* parse_driver_name_string: the name, or the error thrown
parse_driver_name_string(json_data, value_offset) ==
    LET up_to(q) ==
            IF q = MalformedJson THEN [status |-> InvalidSaveFile]
            ELSE [status |-> Ok, text |-> string_view_between(json_data, value_offset, q)]
    IN  IF At(json_data, value_offset) = "\""
        THEN up_to(find_closing_quote(json_data, value_offset))
        ELSE [status |-> InvalidDriverName]

\* The callback of maybe_get_driver run over the visits from the k-th on.
\* found holds car_id_pos, first_name and last_name and whether each has a
\* value; stopped tells that the callback returned false.
RECURSIVE driver_fields(_, _, _, _)
driver_fields(json_data, visits, k, found) ==
    LET v == visits[k]
        next(parsed) ==
            LET now == IF v.key = "mCarID"
                       THEN [found EXCEPT !.has_car_id_pos = TRUE, !.car_id_pos = v.value]
                       ELSE IF v.key = "mFirstName"
                       THEN [found EXCEPT !.has_first_name = TRUE,
                                          !.first_name = parsed.text]
                       ELSE IF v.key = "mLastName"
                       THEN [found EXCEPT !.has_last_name = TRUE, !.last_name = parsed.text]
                       ELSE found
            IN  IF parsed.status # Ok THEN [status |-> parsed.status]
                ELSE IF now.has_car_id_pos /\ now.has_first_name /\ now.has_last_name
                THEN [status |-> Ok, found |-> now, stopped |-> TRUE]
                ELSE driver_fields(json_data, visits, k + 1, now)
    IN  IF k > Len(visits) THEN [status |-> Ok, found |-> found, stopped |-> FALSE]
        ELSE next(IF v.key = "mFirstName" \/ v.key = "mLastName"
                  THEN parse_driver_name_string(json_data, v.value)
                  ELSE [status |-> Ok, text |-> ""])

\* maybe_get_driver: a driver, std::nullopt (status "none"), or the error
\* thrown
maybe_get_driver(json_data, contract_key_offset) ==
    LET make(fields, pos) ==
            IF pos.status # Ok THEN [status |-> pos.status]
            ELSE [status |-> Ok,
                  driver |-> Driver(fields.found.first_name \o " " \o fields.found.last_name,
                                    pos.position, fields.found.car_id_pos)]
        after(walk, fields) ==
            IF fields.status # Ok THEN [status |-> fields.status]
            ELSE IF ~fields.stopped /\ walk.threw THEN [status |-> InvalidSaveFile]
            ELSE IF ~fields.stopped THEN [status |-> "none"]
            ELSE make(fields, parse_driver_position(json_data, fields.found.car_id_pos))
        over(walk) ==
            after(walk, driver_fields(json_data, walk.visits, 1,
                            [has_car_id_pos |-> FALSE, car_id_pos |-> 0,
                             has_first_name |-> FALSE, first_name |-> "",
                             has_last_name |-> FALSE, last_name |-> ""]))
    IN  over(for_sibling_key_values_in_object(json_data, contract_key_offset))

\* The loop of get_driver_data_from_json over the employer team references
RECURSIVE found_drivers_from(_, _, _, _)
found_drivers_from(save_data, refs, k, found_drivers) ==
    LET add(d) ==
            IF d.status = "none"
            THEN found_drivers_from(save_data, refs, k + 1, found_drivers)
            ELSE IF d.status # Ok THEN [status |-> d.status]
            ELSE found_drivers_from(save_data, refs, k + 1, Append(found_drivers, d.driver))
        at(contract_key_offset) ==
            IF contract_key_offset = MalformedJson THEN [status |-> InvalidSaveFile]
            ELSE IF contract_key_offset = npos
            THEN found_drivers_from(save_data, refs, k + 1, found_drivers)
            ELSE add(maybe_get_driver(save_data, contract_key_offset))
    IN  IF k > Len(refs) THEN [status |-> Ok, found_drivers |-> found_drivers]
        ELSE at(find_employeer_team_ref_contract_offset(save_data, refs[k]))

\* std::sort by car_id_file_offset, for the three drivers found
SortDrivers(ds) ==
    LET lt(a, b) == a.car_id_file_offset < b.car_id_file_offset
        s12 == IF lt(ds[2], ds[1]) THEN <<ds[2], ds[1], ds[3]>> ELSE ds
        s23 == IF lt(s12[3], s12[2]) THEN <<s12[1], s12[3], s12[2]>> ELSE s12
    IN  IF lt(s23[2], s23[1]) THEN <<s23[2], s23[1], s23[3]>> ELSE s23

\* SaveFile::get_driver_data_from_json: the drivers array, or the error thrown
get_driver_data_from_json(save_data) ==
    LET sorted(found) ==
            IF found.status # Ok THEN [status |-> found.status]
            ELSE IF Len(found.found_drivers) # 3 THEN [status |-> DriverCountMismatch]
            ELSE [status |-> Ok, drivers |-> SortDrivers(found.found_drivers)]
        of_team(team) ==
            IF team.status # Ok THEN [status |-> team.status]
            ELSE sorted(found_drivers_from(save_data,
                            for_each_employeer_team_ref(save_data, team.id), 1, <<>>))
    IN  of_team(get_player_team_id(save_data))

(***************************************************************************)
(* Opening a save file.                                                    *)
(***************************************************************************)
\* What reading outside the file's bytes may do: std::span::subspan past the
\* end has no defined behaviour.  Either the process is killed, or the bytes
\* read there have some value (UBFill: one value per run).
UBFill == {" ", "}"}
UBOutcomes == {"crash"} \cup UBFill

\* n copies of the byte of character c
Fill(n, c) == [i \in 1..n |-> Ord(c)]

\* SaveFile::open_and_decompress_save: save_info and save_data, or the error
\* thrown.  past_end tells that the compressed segments were sliced past the
\* end of the file's bytes.
open_and_decompress_save(file_data, ub) ==
    LET result(past_end, info, data) ==
            IF info.status # Ok
            THEN [status |-> info.status, past_end |-> past_end, decompressing |-> TRUE]
            ELSE IF data.status # Ok
            THEN [status |-> data.status, past_end |-> past_end, decompressing |-> TRUE]
            ELSE [status |-> Ok, past_end |-> past_end, decompressing |-> TRUE,
                  save_info |-> info.text, save_data |-> data.text]
        split(header, past_end, remaining_file_data) ==
            result(past_end,
                   lz4_decompress(First(remaining_file_data, header.compressed_info_size),
                                  header.decompressed_info_size),
                   lz4_decompress(Subspan(remaining_file_data, header.compressed_info_size),
                                  header.decompressed_data_size))
        slice(header, wanted) ==
            IF wanted > Len(file_data) /\ ub = "crash"
            THEN [status |-> AccessViolation, past_end |-> TRUE, decompressing |-> TRUE]
            ELSE split(header, wanted > Len(file_data),
                       SubSeq(IF wanted > Len(file_data)
                              THEN file_data \o Fill(wanted - Len(file_data), ub)
                              ELSE file_data,
                              sizeof_SaveFileHeader + 1, wanted))
        after(read) ==
            IF read.status # Ok
            THEN read @@ [past_end |-> FALSE, decompressing |-> FALSE]
            ELSE slice(read.header,
                       sizeof_SaveFileHeader + read.header.compressed_info_size
                           + read.header.compressed_data_size)
    IN  after(read_save_file_header(file_data))

\* SaveFile::SaveFile: the session, or the error thrown
SaveFile(file_data, ub) ==
    LET object(buffers, name, found) ==
            IF name.status # Ok
            THEN [status |-> name.status, past_end |-> buffers.past_end,
                  decompressing |-> TRUE]
            ELSE IF found.status # Ok
            THEN [status |-> found.status, past_end |-> buffers.past_end,
                  decompressing |-> TRUE]
            ELSE [status |-> Ok, past_end |-> buffers.past_end, decompressing |-> TRUE,
                  save_info |-> buffers.save_info, save_data |-> buffers.save_data,
                  save_name_offset |-> name.save_name_offset,
                  save_name_size |-> name.save_name_size,
                  drivers |-> found.drivers]
        from(buffers) ==
            IF buffers.status # Ok THEN buffers
            ELSE object(buffers, get_save_name(buffers.save_info),
                        get_driver_data_from_json(buffers.save_data))
    IN  from(open_and_decompress_save(file_data, ub))

(***************************************************************************)
(* Writing the save file.                                                  *)
(***************************************************************************)
\* get_position_as_json_value, were the tokens of the two cars exchanged
get_position_as_json_value_exchanged(p) ==
    IF p = reserve THEN "-1" ELSE IF p = car1 THEN "1" ELSE "0"

get_position_as_json_value(p) ==
    IF p = reserve THEN "-1" ELSE IF p = car1 THEN "0" ELSE "1"
\* data_out_size_steps, were the two token lengths taken the other way round
RECURSIVE data_out_size_steps_swapped(_, _, _)
data_out_size_steps_swapped(size, drivers, k) ==
    IF k > Len(drivers) THEN <<size>>
    ELSE LET less == size - Len(get_position_as_json_value(drivers[k].position))
             more == less + Len(get_position_as_json_value(drivers[k].original_position))
         IN  <<size, less>> \o data_out_size_steps_swapped(more, drivers, k + 1)

\* The values size takes in the loop that computes data_out_size: the size
\* of the data at first, then after each -= and each +=.
RECURSIVE data_out_size_steps(_, _, _)
data_out_size_steps(size, drivers, k) ==
    IF k > Len(drivers) THEN <<size>>
    ELSE LET less == size - Len(get_position_as_json_value(drivers[k].original_position))
             more == less + Len(get_position_as_json_value(drivers[k].position))
         IN  <<size, less>> \o data_out_size_steps(more, drivers, k + 1)

\* create_uncompressed_output_buffer: the sizes of the two output buffers
create_uncompressed_output_buffer(original_save_info, original_save_data, original_save_name_size, new_save_name, drivers) ==
    LET steps == data_out_size_steps(Len(original_save_data), drivers, 1) IN
    [info_out_size |-> Len(original_save_info) - original_save_name_size + Len(new_save_name),
     data_out_size |-> steps[Len(steps)]]

\* An output buffer being filled: what was copied and the room that remains
Buffer(size) == [status |-> Ok, text |-> "", remaining |-> size]

\* copy_to_buffer; a buffer that already failed stays failed
copy_to_buffer(s, b) ==
    IF b.status # Ok THEN b
    ELSE IF Len(s) > b.remaining THEN [status |-> CopyOutOfMemory]
    ELSE [status |-> Ok, text |-> b.text \o s, remaining |-> b.remaining - Len(s)]

\* original_save_data.substr( pos, n ) with n computed in size_t: a negative
\* n wraps to a count larger than any buffer
SubstrCount(s, pos, n) == IF n < 0 THEN SubstrFrom(s, pos) ELSE Substr(s, pos, n)
\* copy_data_from, were the cut point moved past the new token's length
RECURSIVE copy_data_from_past_new_token(_, _, _, _, _)
copy_data_from_past_new_token(original_save_data, drivers, k, not_copied_offset, b) ==
    IF k > Len(drivers)
    THEN copy_to_buffer(SubstrFrom(original_save_data, not_copied_offset), b)
    ELSE LET d == drivers[k] IN
         IF d.position # d.original_position
         THEN copy_data_from_past_new_token(original_save_data, drivers, k + 1,
                  d.car_id_file_offset + Len(get_position_as_json_value(d.position)),
                  copy_to_buffer(get_position_as_json_value(d.position),
                      copy_to_buffer(SubstrCount(original_save_data, not_copied_offset,
                                         d.car_id_file_offset - not_copied_offset), b)))
         ELSE copy_data_from_past_new_token(original_save_data, drivers, k + 1,
                  not_copied_offset, b)

\* The loop of create_uncompressed_output over the drivers from the k-th on,
\* and the copy of the tail after it
RECURSIVE copy_data_from(_, _, _, _, _)
copy_data_from(original_save_data, drivers, k, not_copied_offset, b) ==
    IF k > Len(drivers)
    THEN copy_to_buffer(SubstrFrom(original_save_data, not_copied_offset), b)
    ELSE LET d == drivers[k] IN
         IF d.position # d.original_position
         THEN copy_data_from(original_save_data, drivers, k + 1,
                  d.car_id_file_offset
                      + Len(get_position_as_json_value(d.original_position)),
                  copy_to_buffer(get_position_as_json_value(d.position),
                      copy_to_buffer(SubstrCount(original_save_data, not_copied_offset,
                                         d.car_id_file_offset - not_copied_offset), b)))
         ELSE copy_data_from(original_save_data, drivers, k + 1, not_copied_offset, b)
\* create_uncompressed_output, were an empty new name to stand for the
\* original name
create_uncompressed_output_keeping_name(original_save_info, original_save_data, original_save_name_offset, original_save_name_size, new_save_name, drivers) ==
    LET name == IF new_save_name = ""
                THEN Substr(original_save_info, original_save_name_offset,
                            original_save_name_size)
                ELSE new_save_name
        filled(info, data) ==
            IF info.status # Ok THEN [status |-> info.status]
            ELSE IF data.status # Ok THEN [status |-> data.status]
            ELSE IF info.remaining # 0 \/ data.remaining # 0 THEN [status |-> BadCopy]
            ELSE [status |-> Ok, info |-> info.text, data |-> data.text]
        copy(output) ==
            filled(copy_to_buffer(SubstrFrom(original_save_info,
                                      original_save_name_offset + original_save_name_size),
                       copy_to_buffer(name,
                           copy_to_buffer(
                               Substr(original_save_info, 0, original_save_name_offset),
                               Buffer(output.info_out_size)))),
                   copy_data_from(original_save_data, drivers, 1, 0,
                       Buffer(output.data_out_size)))
    IN  copy(create_uncompressed_output_buffer(original_save_info, original_save_data,
                 original_save_name_size, name, drivers))

\* create_uncompressed_output: the new info and data, or the error thrown
create_uncompressed_output(original_save_info, original_save_data, original_save_name_offset, original_save_name_size, new_save_name, drivers) ==
    LET filled(remaining_info_buffer, remaining_data_buffer) ==
            IF remaining_info_buffer.status # Ok
            THEN [status |-> remaining_info_buffer.status]
            ELSE IF remaining_data_buffer.status # Ok
            THEN [status |-> remaining_data_buffer.status]
            ELSE IF remaining_info_buffer.remaining # 0
                    \/ remaining_data_buffer.remaining # 0
            THEN [status |-> BadCopy]
            ELSE [status |-> Ok, info |-> remaining_info_buffer.text,
                  data |-> remaining_data_buffer.text]
        copy(output) ==
            filled(copy_to_buffer(SubstrFrom(original_save_info,
                                      original_save_name_offset + original_save_name_size),
                       copy_to_buffer(new_save_name,
                           copy_to_buffer(
                               Substr(original_save_info, 0, original_save_name_offset),
                               Buffer(output.info_out_size)))),
                   copy_data_from(original_save_data, drivers, 1, 0,
                       Buffer(output.data_out_size)))
    IN  copy(create_uncompressed_output_buffer(original_save_info, original_save_data,
                 original_save_name_size, new_save_name, drivers))

\* write, were the data segment stored before the info segment
written_container_data_first(output) ==
    LET info_block == lz4_compress(output.info, LZ4_compressBound(Len(output.info)))
        data_block == lz4_compress(output.data, LZ4_compressBound(Len(output.data)))
    IN  [status |-> Ok,
         bytes |-> HeaderBytes(SaveFileHeader(mm_save_file_magic,
                                   mm_save_file_supported_version,
                                   Len(info_block.bytes), Len(output.info),
                                   Len(data_block.bytes), Len(output.data)))
                       \o data_block.bytes \o info_block.bytes]

\* The bytes SaveFile::write puts into the temporary file and the size it
\* truncates the file to, or the error thrown
written_container(output) ==
    LET max_output_size ==
            sizeof_SaveFileHeader + LZ4_compressBound(Len(output.info))
                + LZ4_compressBound(Len(output.data))
        file_of(compressed_info, compressed_data) ==
            IF compressed_info.status # Ok THEN [status |-> compressed_info.status]
            ELSE IF compressed_data.status # Ok THEN [status |-> compressed_data.status]
            ELSE [status |-> Ok,
                  bytes |-> HeaderBytes(SaveFileHeader(mm_save_file_magic,
                                            mm_save_file_supported_version,
                                            Len(compressed_info.bytes), Len(output.info),
                                            Len(compressed_data.bytes), Len(output.data)))
                                \o compressed_info.bytes \o compressed_data.bytes]
        after_info(compressed_info) ==
            IF compressed_info.status # Ok THEN [status |-> compressed_info.status]
            ELSE file_of(compressed_info,
                         lz4_compress(output.data,
                             max_output_size - sizeof_SaveFileHeader
                                 - Len(compressed_info.bytes)))
    IN  after_info(lz4_compress(output.info, max_output_size - sizeof_SaveFileHeader))

(***************************************************************************)
(* Save files for the model to open.                                       *)
(***************************************************************************)
\* The info text of a save named name
InfoText(name) ==
    "{\"saveInfo\":{\"date\":\"1 {May}\",\"name\":\"" \o name
        \o "\",\"version\":12},\"gameInfo\":{\"name\":\"x\"}}"

EmployeerTeamRef(team_id) == "\"mEmployeerTeam\":{\"$ref\":\"" \o team_id \o "\"}"

\* An employee of team team_id whose mCarID holds token.  The layouts put
\* mCarID before the contract, last in the object, and between the names.
PersonObject(layout, first, last, token, team_id) ==
    LET contract == "\"contract\":{\"job\":[1,{\"a\":\"}\"}]," \o EmployeerTeamRef(team_id) \o "}"
        car == "\"mCarID\":" \o token
        fn == "\"mFirstName\":\"" \o first \o "\""
        ln == "\"mLastName\":\"" \o last \o "\""
    IN  IF layout = "car_first"
        THEN "{" \o car \o "," \o fn \o "," \o ln \o "," \o contract \o "}"
        ELSE IF layout = "car_last"
        THEN "{" \o contract \o "," \o fn \o "," \o ln \o "," \o car \o "}"
        ELSE "{" \o fn \o "," \o contract \o "," \o car \o "," \o ln \o "}"

\* The data text of a save whose player team has three drivers with the
\* given mCarID tokens, an engineer without mCarID, and a sponsor that refers
\* to the team outside any contract.
DataText(layout, tokens) ==
    "{\"mPlayerTeam\":{\"mName\":\"T\\\"1\",\"$id\":\"7\"},\"mDrivers\":["
        \o PersonObject(layout, "Al", "A\\\"x", tokens[1], "7") \o ","
        \o PersonObject(layout, "Bo", "B{", tokens[2], "7") \o ","
        \o "{\"mCarID\":1,\"mFirstName\":\"Ri\",\"mLastName\":\"V\","
        \o "\"contract\":{" \o EmployeerTeamRef("8") \o "}},"
        \o PersonObject(layout, "Cy", "C", tokens[3], "7")
        \o "],\"mEngineers\":[{\"mFirstName\":\"Ed\",\"mLastName\":\"E\",\"contract\":{"
        \o EmployeerTeamRef("7") \o "}}],\"mSponsor\":{" \o EmployeerTeamRef("7") \o "}}"

\* The container that holds the two texts
Container(info, data) ==
    LET ci == Lz4Block(info)
        cd == Lz4Block(data)
    IN  HeaderBytes(SaveFileHeader(mm_save_file_magic, mm_save_file_supported_version,
                                   Len(ci), Len(info), Len(cd), Len(data)))
            \o ci \o cd

\* The save name of the files of Spec: it holds an escaped quote and a brace.
OriginalName == "a\\\"{b"

Layouts == {"car_first", "car_last", "mixed"}

\* The names given to write: the empty name, the original name, and letters
RECURSIVE Letters(_)
Letters(n) == IF n = 0 THEN "" ELSE "n" \o Letters(n - 1)
NewNames == {OriginalName} \cup {Letters(n) : n \in 0..MaxNameLen}

(***************************************************************************)
(* Spec: a save file is opened, its drivers' positions are set, it is      *)
(* written and the written container is opened again.                      *)
(***************************************************************************)
NotRun == [status |-> "not run"]
\* std::optional< SaveFile > without a value
NoSession == [status |-> "none"]
NoFields == [magic |-> 0]
\* write, were it to take the written positions as the original ones
write_this_committing(s) ==
    [s EXCEPT !.drivers =
        [k \in 1..Len(s.drivers) |->
            [s.drivers[k] EXCEPT !.original_position = s.drivers[k].position]]]

\* What SaveFile::write does to the object it is called on: it is a const
\* member function.
write_this(s) == s

\* The mCarID tokens of the three drivers in the files of Spec
OriginalTokens == {<<"-1", "0", "1">>, <<"0", "1", "-1">>, <<"1", "-1", "0">>}

Init ==
    /\ \E layout \in Layouts, tokens \in OriginalTokens :
          file = Container(InfoText(OriginalName), DataText(layout, tokens))
    /\ header_fields = NoFields
    /\ parsed_header = NotRun
    /\ opened = NotRun
    /\ session = NoSession
    /\ uncompressed_output = NotRun
    /\ written = NotRun
    /\ reopened = NotRun
    /\ window = NotRun
    /\ fs = NotRun
    /\ buffer = ""
    /\ document = NotRun
    /\ nav = NotRun
    /\ com = NotRun

\* save_file.emplace( path ): the constructor throws, or the object exists
Open ==
    /\ opened = NotRun
    /\ \E ub \in UBOutcomes : \E made \in {SaveFile(file, ub)} :
          /\ opened' = IF made.status = Ok
                        THEN [status |-> Ok, past_end |-> made.past_end,
                              decompressing |-> made.decompressing]
                        ELSE made
          /\ session' = IF made.status = Ok THEN made ELSE NoSession
    /\ UNCHANGED <<file, header_fields, parsed_header, uncompressed_output, written, reopened>>
    /\ UNCHANGED <<window, fs, buffer, document, nav, com>>

\* The caller sets the position of each driver through get_drivers().
SetPositions(p1, p2, p3) ==
    /\ session.status = Ok
    /\ session' = [session EXCEPT !.drivers[1].position = p1,
                                  !.drivers[2].position = p2,
                                  !.drivers[3].position = p3]
    /\ uncompressed_output' = NotRun
    /\ written' = NotRun
    /\ reopened' = NotRun
    /\ UNCHANGED <<file, header_fields, parsed_header, opened>>
    /\ UNCHANGED <<window, fs, buffer, document, nav, com>>

\* SaveFile::write( file_path, new_save_name )
Write(new_save_name) ==
    /\ session.status = Ok
    /\ \E out \in {create_uncompressed_output(session.save_info, session.save_data,
                       session.save_name_offset, session.save_name_size,
                       new_save_name, session.drivers)} :
          /\ uncompressed_output' =
                 out @@ [new_save_name |-> new_save_name,
                         again |-> uncompressed_output.status # "not run"]
          /\ written' = IF out.status = Ok THEN written_container(out)
                        ELSE [status |-> out.status]
    /\ session' = write_this(session)
    /\ reopened' = NotRun
    /\ UNCHANGED <<file, header_fields, parsed_header, opened>>
    /\ UNCHANGED <<window, fs, buffer, document, nav, com>>

\* The written file is opened as a save file.
Reopen ==
    /\ written.status = Ok
    /\ reopened = NotRun
    /\ \E ub \in UBOutcomes : reopened' = SaveFile(written.bytes, ub)
    /\ UNCHANGED <<file, header_fields, parsed_header, opened, session, uncompressed_output, written>>
    /\ UNCHANGED <<window, fs, buffer, document, nav, com>>

Next ==
    \/ Open
    \/ \E p1 \in DriverPosition, p2 \in DriverPosition, p3 \in DriverPosition :
          SetPositions(p1, p2, p3)
    \/ \E n \in NewNames : Write(n)
    \/ Reopen

Spec == Init /\ [][Next]_vars

(***************************************************************************)
(* SpecHeader: files whose header fields or length are off are read and    *)
(* opened.                                                                 *)
(***************************************************************************)
TrueInfo == InfoText(OriginalName)
TrueData == DataText("mixed", <<"-1", "0", "1">>)
TrueBody == Lz4Block(TrueInfo) \o Lz4Block(TrueData)
TrueSizes == <<Len(Lz4Block(TrueInfo)), Len(TrueInfo), Len(Lz4Block(TrueData)), Len(TrueData)>>

\* The four size fields: each its true value, 0 or -1, or one of them off by one
SizeFields ==
    {<<a, b, c, d>> : a \in {TrueSizes[1], 0, -1}, b \in {TrueSizes[2], 0, -1},
                      c \in {TrueSizes[3], 0, -1}, d \in {TrueSizes[4], 0, -1}}
        \cup {[TrueSizes EXCEPT ![i] = @ + by] : i \in 1..4, by \in {-1, 1}}

HeaderFields ==
    {SaveFileHeader(magic, version, sizes[1], sizes[2], sizes[3], sizes[4]) :
        magic \in {mm_save_file_magic, mm_save_file_magic + 1},
        version \in {mm_save_file_supported_version - 1, mm_save_file_supported_version,
                     mm_save_file_supported_version + 1},
        sizes \in SizeFields}

\* The lengths of the files: the whole file less at most MaxShortLen bytes,
\* the header alone, and less than a header
FileLengths ==
    {sizeof_SaveFileHeader + Len(TrueBody) - cut : cut \in 0..MaxShortLen}
        \cup {sizeof_SaveFileHeader - cut : cut \in 0..MaxShortLen} \cup {0}

InitHeader ==
    /\ \E made_with \in HeaderFields, length \in FileLengths :
          /\ header_fields = made_with
          /\ file = First(HeaderBytes(made_with) \o TrueBody, length)
    /\ parsed_header = NotRun
    /\ opened = NotRun
    /\ session = NoSession
    /\ uncompressed_output = NotRun
    /\ written = NotRun
    /\ reopened = NotRun
    /\ window = NotRun
    /\ fs = NotRun
    /\ buffer = ""
    /\ document = NotRun
    /\ nav = NotRun
    /\ com = NotRun

\* read_save_file_header( file_data )
ReadHeader ==
    /\ parsed_header = NotRun
    /\ parsed_header' = read_save_file_header(file)
    /\ UNCHANGED <<file, header_fields, opened, session, uncompressed_output, written, reopened>>
    /\ UNCHANGED <<window, fs, buffer, document, nav, com>>

NextHeader == ReadHeader \/ Open

SpecHeader == InitHeader /\ [][NextHeader]_vars

(***************************************************************************)
(* Properties of the patch writer, under Spec.                             *)
(***************************************************************************)
\* The JSON token of a position, as the format states it
TokenOf(p) == CASE p = reserve -> "-1" [] p = car1 -> "0" [] p = car2 -> "1"

\* What a driver's edit adds to the length of the data
Delta(d) ==
    IF d.position = d.original_position THEN 0
    ELSE Len(TokenOf(d.position)) - Len(TokenOf(d.original_position))

RECURSIVE DeltaSum(_, _)
DeltaSum(drivers, k) == IF k = 0 THEN 0 ELSE Delta(drivers[k]) + DeltaSum(drivers, k - 1)

\* data with the tokens of the changed drivers among the first k replaced,
\* the last of them first, so that the offsets before it stay valid
RECURSIVE Replaced(_, _, _)
Replaced(data, drivers, k) ==
    IF k = 0 THEN data
    ELSE LET d == drivers[k] IN
         Replaced(IF d.position = d.original_position THEN data
                  ELSE Substr(data, 0, d.car_id_file_offset) \o TokenOf(d.position)
                           \o SubstrFrom(data, d.car_id_file_offset
                                                   + Len(TokenOf(d.original_position))),
                  drivers, k - 1)

Ascending(drivers) ==
    \A k \in 1..(Len(drivers) - 1) :
        drivers[k].car_id_file_offset < drivers[k + 1].car_id_file_offset

HasWritten == uncompressed_output.status # "not run"

\* C1: whenever write has built its output for a session whose drivers lie
\* at strictly ascending offsets, the new data is the original data with the
\* token of each changed driver (as long as its original position's token)
\* replaced by the token of its new position, and nothing else changed.
C1_DataIsOriginalWithTokensReplaced ==
    (HasWritten /\ Ascending(session.drivers))
        => /\ uncompressed_output.status = Ok
           /\ uncompressed_output.data = Replaced(session.save_data, session.drivers, 3)
           /\ \A k \in 1..3 :
                 Substr(session.save_data, session.drivers[k].car_id_file_offset,
                        Len(TokenOf(session.drivers[k].original_position)))
                     = TokenOf(session.drivers[k].original_position)

\* A write where one driver's token grew, another's shrank and the third
\* driver kept its position
C1_Witness ==
    /\ HasWritten /\ Ascending(session.drivers)
    /\ \E a, b, c \in 1..3 :
          /\ Delta(session.drivers[a]) > 0
          /\ Delta(session.drivers[b]) < 0
          /\ session.drivers[c].position = session.drivers[c].original_position
    /\ uncompressed_output.data # session.save_data

SessionSaveName == Substr(session.save_info, session.save_name_offset, session.save_name_size)

\* The info buffer around the save name
BeforeName == Substr(session.save_info, 0, session.save_name_offset)
AfterName == SubstrFrom(session.save_info, session.save_name_offset + session.save_name_size)

\* C4: write puts the name it is given in place of the save name, also an
\* empty one: given an empty name, the written info holds an empty name
\* string, and opening the written container finds a save name of length 0.
C4_EmptyNameIsWritten ==
    (HasWritten /\ uncompressed_output.new_save_name = "")
        => /\ uncompressed_output.status = Ok
           /\ uncompressed_output.info = BeforeName \o AfterName
           /\ uncompressed_output.info # session.save_info
           /\ reopened.status # "not run"
                 => /\ reopened.status = Ok
                    /\ reopened.save_name_size = 0
                    /\ reopened.save_name_offset = session.save_name_offset

\* The container written with an empty name has been opened again
C4_Witness ==
    /\ uncompressed_output.status = Ok
    /\ uncompressed_output.new_save_name = ""
    /\ reopened.status = Ok
    /\ session.save_name_size > 0

\* C4 as the specification states it: given an empty name, the written info
\* holds the original save name, and reopening finds that name.
C4_EmptyNameKeepsOriginal ==
    (HasWritten /\ uncompressed_output.new_save_name = "")
        => /\ uncompressed_output.info = session.save_info
           /\ reopened.status = Ok
                 => Substr(reopened.save_info, reopened.save_name_offset,
                           reopened.save_name_size) = SessionSaveName

\* C5: the new info is the original info before the save name, the new
\* name, and the original info after the save name; the place of the save
\* name is the contents of the name string of saveInfo between its quotes;
\* the new length is the old one less the old name plus the new name, and
\* both quotes stay around the new name.
C5_InfoIsBeforeNameAfter ==
    HasWritten
        => /\ uncompressed_output.status = Ok
           /\ uncompressed_output.info
                 = BeforeName \o uncompressed_output.new_save_name \o AfterName
           /\ SessionSaveName = OriginalName
           /\ BeforeName = "{\"saveInfo\":{\"date\":\"1 {May}\",\"name\":\""
           /\ Len(uncompressed_output.info)
                 = Len(session.save_info) - session.save_name_size
                       + Len(uncompressed_output.new_save_name)
           /\ At(uncompressed_output.info, session.save_name_offset - 1) = "\""
           /\ At(uncompressed_output.info,
                 session.save_name_offset + Len(uncompressed_output.new_save_name)) = "\""

\* A write with a new name that is shorter than the original one
C5_Witness ==
    /\ uncompressed_output.status = Ok
    /\ uncompressed_output.new_save_name \notin {"", SessionSaveName}
    /\ Len(uncompressed_output.info) < Len(session.save_info)

Unedited == \A k \in 1..3 : session.drivers[k].position = session.drivers[k].original_position

\* C6: with no position changed and the original name given, the patched
\* info and data are the original buffers, and the written container
\* decompresses to the same texts.
C6_RoundTrip ==
    (HasWritten /\ Unedited /\ uncompressed_output.new_save_name = SessionSaveName)
        => /\ uncompressed_output.status = Ok
           /\ uncompressed_output.info = session.save_info
           /\ uncompressed_output.data = session.save_data
           /\ written.status = Ok
           /\ reopened.status # "not run"
                 => /\ reopened.status = Ok
                    /\ reopened.save_info = session.save_info
                    /\ reopened.save_data = session.save_data

\* The container of an unedited session written under its own name has been
\* opened again
C6_Witness ==
    /\ uncompressed_output.status = Ok
    /\ Unedited
    /\ uncompressed_output.new_save_name = SessionSaveName
    /\ written.status = Ok
    /\ reopened.status = Ok

\* A step of write: it leaves an output behind and no reopened container
WriteStep ==
    /\ uncompressed_output'.status # "not run"
    /\ reopened'.status = "not run"
    /\ \E n \in {uncompressed_output'.new_save_name} : Write(n)

\* C7: write leaves the session as it was, and a write that follows a write
\* of the same session under the same name builds the same info and data.
C7_WriteIsRepeatable ==
    [][WriteStep
         => /\ session' = session
            /\ (HasWritten /\ uncompressed_output'.new_save_name
                                 = uncompressed_output.new_save_name)
                  => /\ uncompressed_output'.status = uncompressed_output.status
                     /\ uncompressed_output'.info = uncompressed_output.info
                     /\ uncompressed_output'.data = uncompressed_output.data]_vars

\* A second write of a session in which a token changed its length
C7_Witness ==
    /\ uncompressed_output.status = Ok
    /\ uncompressed_output.again
    /\ \E k \in 1..3 : Delta(session.drivers[k]) # 0

(***************************************************************************)
(* Properties of the header and of opening, under SpecHeader.              *)
(***************************************************************************)
SizesPositive ==
    /\ header_fields.compressed_info_size > 0
    /\ header_fields.decompressed_info_size > 0
    /\ header_fields.compressed_data_size > 0
    /\ header_fields.decompressed_data_size > 0

\* A file that holds a whole header with the right magic and another version
\* than the supported one has been opened
OtherVersionOpened ==
    /\ opened.status # "not run"
    /\ header_fields # NoFields
    /\ Len(file) >= 24
    /\ header_fields.magic = 1932684653
    /\ header_fields.version # 4

\* C8: opening a file of at least 24 bytes with the right magic and a
\* version other than 4 never reaches decompression; it fails with
\* UnsupportedVersion, which carries the version, when all four sizes are
\* positive, and with InvalidFormat when one of the sizes is not.
C8_VersionGateAfterSizes ==
    OtherVersionOpened
        => /\ ~opened.decompressing
           /\ SizesPositive
                 => /\ opened.status = UnsupportedVersion
                    /\ opened.version = header_fields.version
           /\ ~SizesPositive => opened.status = InvalidFormat

\* A file of version 5 with positive sizes, cut short, was refused for its
\* version
C8_Witness ==
    /\ OtherVersionOpened
    /\ SizesPositive
    /\ header_fields.version = 5
    /\ Len(file) < 24 + Len(TrueBody)
    /\ opened.status = UnsupportedVersion
    /\ opened.version = 5

\* C8 as the specification states it: whatever the four sizes are, the open
\* fails with UnsupportedVersion carrying the version.
C8_VersionGateWhateverSizes ==
    OtherVersionOpened
        => /\ ~opened.decompressing
           /\ opened.status = UnsupportedVersion
           /\ opened.version = header_fields.version

\* C9: read_save_file_header fails with InvalidFormat on a file of fewer
\* than 24 bytes, on another magic than 1932684653 and on a size that is 0
\* or less; it returns a header only when magic and version match and all
\* four sizes are positive, and then the header is the one of the file.
C9_HeaderValidation ==
    (parsed_header.status # "not run" /\ header_fields # NoFields)
        => /\ (Len(file) < 24 \/ header_fields.magic # 1932684653 \/ ~SizesPositive)
                 => parsed_header.status = InvalidFormat
           /\ parsed_header.status = Ok
                 => /\ Len(file) >= 24
                    /\ header_fields.magic = 1932684653
                    /\ header_fields.version = 4
                    /\ SizesPositive
                    /\ parsed_header.header = header_fields

\* A whole header with the right magic and version whose only fault is one
\* size of 0 was refused
C9_Witness ==
    /\ parsed_header.status = InvalidFormat
    /\ Len(file) >= 24
    /\ header_fields.magic = 1932684653
    /\ header_fields.version = 4
    /\ header_fields.compressed_data_size = 0
    /\ header_fields.compressed_info_size > 0
    /\ header_fields.decompressed_info_size > 0
    /\ header_fields.decompressed_data_size > 0

\* C10 as the specification states it: opening a file with a valid header
\* that is shorter than 24 + compressed_info_size + compressed_data_size
\* fails with InvalidFormat, and the segments are never taken from beyond
\* the end of the file.
C10_ShortFileIsRefused ==
    (/\ opened.status # "not run"
     /\ header_fields # NoFields
     /\ Len(file) >= 24
     /\ header_fields.magic = 1932684653
     /\ header_fields.version = 4
     /\ SizesPositive
     /\ Len(file) < 24 + header_fields.compressed_info_size
                       + header_fields.compressed_data_size)
        => /\ opened.status = InvalidFormat
           /\ ~opened.past_end


(***************************************************************************)
(* SpecGui: the window of the program.  Files are opened one after the     *)
(* other with the open button, and the radio buttons are clicked.          *)
(***************************************************************************)
CouldNotFindFile == "could not find file"

\* A data text whose player team has two drivers only
TwoDriverData ==
    "{\"mPlayerTeam\":{\"$id\":\"7\"},\"mDrivers\":["
        \o PersonObject("car_first", "Al", "A", "0", "7") \o ","
        \o PersonObject("car_last", "Bo", "B", "1", "7") \o "]}"

\* The header of the true file with its sizes changed by the given amounts
OffHeader(magic, info_by, data_by) ==
    HeaderBytes(SaveFileHeader(magic, mm_save_file_supported_version,
                               TrueSizes[1], TrueSizes[2] + info_by,
                               TrueSizes[3], TrueSizes[4] + data_by))

\* The paths the open dialog can return, and the file at each path: two save
\* files that open, and one that fails at each step of opening
GuiPaths ==
    {"good.sav", "other.sav", "glitch.sav", "missing.sav", "magic.sav", "info.sav",
     "data.sav", "noname.sav", "two.sav"}

NoFile == <<-1>>

FileAt(path) ==
    CASE path = "good.sav" -> Container(TrueInfo, TrueData)
      [] path = "other.sav" ->
            Container(InfoText("n"), DataText("car_first", <<"1", "-1", "0">>))
      [] path = "glitch.sav" ->
            Container(InfoText("n"), DataText("car_last", <<"0", "0", "1">>))
      [] path = "magic.sav" -> OffHeader(mm_save_file_magic + 1, 0, 0) \o TrueBody
      [] path = "info.sav" -> OffHeader(mm_save_file_magic, 1, 0) \o TrueBody
      [] path = "data.sav" -> OffHeader(mm_save_file_magic, 0, 1) \o TrueBody
      [] path = "noname.sav" -> Container("{\"gameInfo\":{\"name\":\"x\"}}", TrueData)
      [] path = "two.sav" -> Container(TrueInfo, TwoDriverData)
      [] OTHER -> NoFile

\* SaveFile::SaveFile( path ): the file is mapped, which fails when there is
\* no file at the path, and the mapped bytes are opened
SaveFileAt(path, ub) ==
    IF FileAt(path) = NoFile THEN [status |-> CouldNotFindFile]
    ELSE SaveFile(FileAt(path), ub)

\* The SaveFile constructed from each path, for each outcome of reading past
\* the end of a file
SaveFilesAt == [path \in GuiPaths |-> [ub \in UBOutcomes |-> SaveFileAt(path, ub)]]

\* std::optional::emplace, were it to keep the held value when the
\* constructor throws
optional_emplace_keeping(held, made) == IF made.status = Ok THEN made ELSE held

\* save_file.emplace( path ): the held SaveFile is destroyed, then the new one
\* is constructed in its place; when the constructor throws there is no value
optional_emplace(held, made) == IF made.status = Ok THEN made ELSE NoSession

\* The descriptions of the errors of the file system
FailedToCreateFile == "failed to create file"
FailedToMapFile == "internal error: failed to map file"
FailedToMapView == "internal error: failed to map view of file"
FailedToTruncateFile == "internal error: failed to truncate file"
FailedToWriteFile == "failed to write file"

\* The paths the save dialog can return.  At first there is a file at
\* old.sav and none at new.sav.  A file is "none" (there is none), "other"
\* (not written by the program) or "written" (a container written by it).
SaveDialogPaths == {"new.sav", "old.sav"}

DialogError == "internal error: file dialogue"
AssertFailed == "assert( false )"

\* SaveFile::write on the files, were the rename to replace whatever is at
\* the destination
write_replacing(files, file_path, allow_overwrite, fault) ==
    IF fault THEN [status |-> FailedToCreateFile, files |-> files]
    ELSE [status |-> Ok, files |-> [files EXCEPT ![file_path] = "written"]]

\* SaveFile::write on the files: the container is built in a temporary file
\* (fault: that fails), which is then renamed to file_path; the rename
\* replaces a file at file_path only when allow_overwrite is set
write(files, file_path, allow_overwrite, fault) ==
    IF fault THEN [status |-> FailedToCreateFile, files |-> files]
    ELSE IF files[file_path] # "none" /\ ~allow_overwrite
    THEN [status |-> FailedToWriteFile, files |-> files]
    ELSE [status |-> Ok, files |-> [files EXCEPT ![file_path] = "written"]]

\* selected_driver_positions_are_unique, were it to hold always
selected_driver_positions_are_unique_always(radios) == TRUE

Unchecked == "unchecked"

\* The window after SaveFixerWindow's constructor
NewWindow ==
    [labels |-> <<"", "", "">>, radios |-> <<Unchecked, Unchecked, Unchecked>>,
     shown |-> FALSE, save_enabled |-> TRUE]

\* Each of the three columns of radio buttons has exactly one checked
selected_driver_positions_are_unique(radios) ==
    \A position \in DriverPosition :
        Cardinality({row \in 1..3 : radios[row] = position}) = 1

\* EnableWindow( save_button, selected_driver_positions_are_unique() )
radio_buttons_changed(w) ==
    [w EXCEPT !.save_enabled = selected_driver_positions_are_unique(w.radios)]

\* The driver rows and the save button are shown when save_file has a value
position_controls(w, held) == [w EXCEPT !.shown = held.status = Ok]

\* What open_button_pressed does to the window once save_file holds made
show_opened(w, made) ==
    position_controls(
        radio_buttons_changed(
            [w EXCEPT !.labels = [k \in 1..3 |-> made.drivers[k].name],
                      !.radios = [k \in 1..3 |-> made.drivers[k].position]]),
        made)

InitGui ==
    /\ file = <<>>
    /\ header_fields = NoFields
    /\ parsed_header = NotRun
    /\ opened = NotRun
    /\ session = NoSession
    /\ uncompressed_output = NotRun
    /\ written = NotRun
    /\ reopened = NotRun
    /\ window = NewWindow
    /\ fs = [status |-> Ok, files |-> [path \in SaveDialogPaths |->
                                         IF path = "old.sav" THEN "other" ELSE "none"]]
    /\ buffer = ""
    /\ document = NotRun
    /\ nav = NotRun
    /\ com = NotRun

\* The open button is pressed and the dialog is cancelled
OpenCancelled ==
    /\ window # NotRun
    /\ UNCHANGED vars

\* The open button is pressed and the dialog returns path
open_button_pressed(path) ==
    /\ window # NotRun
    /\ \E ub \in UBOutcomes : \E made \in {SaveFilesAt[path][ub]} :
          /\ opened' = [status |-> made.status, path |-> path,
                        held |-> session.status = Ok]
          /\ session' = optional_emplace(session, made)
          /\ window' = IF made.status = Ok THEN show_opened(window, made) ELSE window
    /\ written' = NotRun
    /\ UNCHANGED <<file, header_fields, parsed_header, uncompressed_output, reopened>>
    /\ UNCHANGED <<fs, buffer, document, nav, com>>

\* A radio button of a driver's row is clicked: it is checked, the others of
\* its row are unchecked, and the save button is enabled or disabled
RadioClicked(row, position) ==
    /\ window # NotRun
    /\ window.shown
    /\ window' = radio_buttons_changed([window EXCEPT !.radios[row] = position])
    /\ written' = NotRun
    /\ UNCHANGED <<file, header_fields, parsed_header, opened, session>>
    /\ UNCHANGED <<uncompressed_output, reopened, fs, buffer, document, nav, com>>

\* The save button is clicked, which only a button that is shown and enabled
\* lets happen.  dialog is what the save dialog does: "cancelled", "error"
\* or the path it returns; answer is the user's answer to the overwrite
\* prompt; created_meanwhile tells that another program creates a file at
\* the path after query_file found none; fault tells that write fails while
\* building the temporary file.
save_button_pressed(dialog, answer, created_meanwhile, fault) ==
    /\ window # NotRun
    /\ window.shown
    /\ window.save_enabled
    /\ IF session.status # Ok \/ ~selected_driver_positions_are_unique(window.radios)
       THEN /\ written' = [status |-> AssertFailed, called |-> FALSE]
            /\ UNCHANGED <<session, fs>>
       ELSE /\ session' = [session EXCEPT !.drivers =
                              [k \in 1..3 |->
                                  [session.drivers[k] EXCEPT !.position =
                                      IF window.radios[k] = car1 THEN car1
                                      ELSE IF window.radios[k] = car2 THEN car2
                                      ELSE reserve]]]
            /\ IF dialog = "cancelled" \/ dialog = "error"
               THEN /\ written' = [status |-> IF dialog = "error" THEN DialogError
                                               ELSE "cancelled",
                                   called |-> FALSE]
                    /\ UNCHANGED fs
               ELSE IF fs.files[dialog] # "none" /\ answer # "yes"
               THEN /\ written' = [status |-> "cancelled", called |-> FALSE]
                    /\ UNCHANGED fs
               ELSE \E allow_overwrite \in {fs.files[dialog] # "none"} :
                    \E before \in {IF fs.files[dialog] = "none" /\ created_meanwhile
                                   THEN [fs.files EXCEPT ![dialog] = "other"]
                                   ELSE fs.files} :
                    \E result \in {write(before, dialog, allow_overwrite, fault)} :
                       /\ written' = [status |-> result.status, called |-> TRUE,
                                      file_path |-> dialog,
                                      allow_overwrite |-> allow_overwrite,
                                      existed |-> fs.files[dialog] # "none",
                                      answer |-> answer,
                                      before |-> before[dialog]]
                       /\ fs' = [fs EXCEPT !.files = result.files]
    /\ UNCHANGED <<file, header_fields, parsed_header, opened, window>>
    /\ UNCHANGED <<uncompressed_output, reopened, buffer, document, nav, com>>

NextGui ==
    \/ OpenCancelled
    \/ \E path \in GuiPaths : open_button_pressed(path)
    \/ \E row \in 1..3, position \in DriverPosition : RadioClicked(row, position)
    \/ \E dialog \in {"cancelled", "error"} \cup SaveDialogPaths, answer \in {"yes", "no"},
          created_meanwhile \in BOOLEAN, fault \in BOOLEAN :
          save_button_pressed(dialog, answer, created_meanwhile, fault)

SpecGui == InitGui /\ [][NextGui]_vars

\* C11: after an open that failed, at whichever step (no file to map, the
\* header refused, either segment not decompressing to its stated size, no
\* save name, not three drivers), save_file holds no session, also when it
\* held one from an earlier open.
C11_FailedOpenLeavesNoSession ==
    (opened.status # "not run" /\ opened.status # Ok) => session = NoSession

\* Each step of opening fails in turn while a session was held
C11_FailedWhileHeld(path, status) ==
    /\ opened.status = status
    /\ opened.path = path
    /\ opened.held
    /\ session = NoSession
    /\ window.shown

C11_Witness ==
    /\ window # NotRun
    /\ opened.status # "not run"
    /\ C11_FailedWhileHeld("two.sav", DriverCountMismatch)


(***************************************************************************)
(* SpecFs: SaveFile::write step by step on the files it touches.  Each     *)
(* call of the operating system can fail, and so can LZ4.                  *)
(***************************************************************************)

\* write, were it to build the new file at the destination path
temp_path_in_place(file_path) == file_path

\* The path of the file that write builds: file_path + ".mmsftmp"
temp_path(file_path) == file_path \o ".mmsftmp"

\* The paths write is given, and the paths it touches
SavePaths == {"a.sav", "a.sav.mmsftmp"}
FsPaths == SavePaths \cup {temp_path(path) : path \in SavePaths}

\* A file that is not a save file
OtherFile == <<1, 2, 3>>

Zeros(n) == [i \in 1..n |-> 0]

\* The bytes of a mapped view after new is stored at offset at
StoreAt(bytes, at, new) ==
    [i \in 1..Len(bytes) |->
        IF i > at /\ i <= at + Len(new) THEN new[i - at] ELSE bytes[i]]

InitFs ==
    /\ file = FileAt("good.sav")
    /\ header_fields = NoFields
    /\ parsed_header = NotRun
    /\ opened = [status |-> Ok, past_end |-> FALSE, decompressing |-> FALSE]
    /\ session = SaveFile(FileAt("good.sav"), "crash")
    /\ uncompressed_output = NotRun
    /\ written = NotRun
    /\ reopened = NotRun
    /\ window = NotRun
    /\ \E at_dest \in {NoFile, OtherFile}, at_temp \in {NoFile, OtherFile} :
       \E files \in {[path \in FsPaths |->
                         IF path = "a.sav" THEN at_dest
                         ELSE IF path = "a.sav.mmsftmp" THEN at_temp
                         ELSE NoFile]} :
          fs = [pc |-> "idle", status |-> Ok, file_path |-> "a.sav",
                allow_overwrite |-> FALSE,
                files |-> files, files_before |-> files,
                dest_before |-> at_dest, output |-> NotRun, max_output_size |-> 0,
                compressed_info_size |-> 0, compressed_data_size |-> 0]
    /\ buffer = ""
    /\ document = NotRun
    /\ nav = NotRun
    /\ com = NotRun

FsUnchanged ==
    UNCHANGED <<file, header_fields, parsed_header, opened, session, uncompressed_output,
                written, reopened, window, buffer, document, nav, com>>

FsFailed(status) == fs' = [fs EXCEPT !.pc = "failed", !.status = status]

\* write is called: the two output texts are made and the size of the
\* temporary file is computed
WriteCalled(file_path, new_save_name, allow_overwrite) ==
    /\ fs # NotRun
    /\ fs.pc \in {"idle", "done", "failed"}
    /\ \E out \in {create_uncompressed_output(session.save_info, session.save_data,
                       session.save_name_offset, session.save_name_size,
                       new_save_name, session.drivers)} :
          fs' = [fs EXCEPT !.pc = IF out.status = Ok THEN "create" ELSE "failed",
                           !.status = out.status,
                           !.file_path = file_path,
                           !.allow_overwrite = allow_overwrite,
                           !.dest_before = fs.files[file_path],
                           !.files_before = fs.files,
                           !.output = out,
                           !.max_output_size =
                               IF out.status # Ok THEN 0
                               ELSE sizeof_SaveFileHeader + LZ4_compressBound(Len(out.info))
                                        + LZ4_compressBound(Len(out.data)),
                           !.compressed_info_size = 0,
                           !.compressed_data_size = 0]
    /\ FsUnchanged

\* WriteFileMapping's constructor on the temporary path: the file is created
\* or emptied (CREATE_ALWAYS), the mapping extends it to max_output_size
CreateTemp(fault) ==
    /\ fs # NotRun
    /\ fs.pc = "create"
    /\ fs' = IF fault = "create_file"
             THEN [fs EXCEPT !.pc = "failed", !.status = FailedToCreateFile]
             ELSE IF fault = "create_mapping"
             THEN [fs EXCEPT !.pc = "failed", !.status = FailedToMapFile,
                             !.files[temp_path(fs.file_path)] = <<>>]
             ELSE IF fault = "map_view"
             THEN [fs EXCEPT !.pc = "failed", !.status = FailedToMapView,
                             !.files[temp_path(fs.file_path)] = Zeros(fs.max_output_size)]
             ELSE [fs EXCEPT !.pc = "compress_info",
                             !.files[temp_path(fs.file_path)] = Zeros(fs.max_output_size)]
    /\ FsUnchanged

\* lz4_compress of the info text into the view, after the header's place
CompressInfo(lz4_fails) ==
    /\ fs # NotRun
    /\ fs.pc = "compress_info"
    /\ \E compressed \in
            {IF lz4_fails THEN [status |-> CompressionFailure]
             ELSE lz4_compress(fs.output.info, fs.max_output_size - sizeof_SaveFileHeader)} :
          IF compressed.status # Ok THEN FsFailed(compressed.status)
          ELSE fs' = [fs EXCEPT !.pc = "compress_data",
                                !.compressed_info_size = Len(compressed.bytes),
                                !.files[temp_path(fs.file_path)] =
                                    StoreAt(@, sizeof_SaveFileHeader, compressed.bytes)]
    /\ FsUnchanged

\* lz4_compress of the data text into the view, after the info segment
CompressData(lz4_fails) ==
    /\ fs # NotRun
    /\ fs.pc = "compress_data"
    /\ \E compressed \in
            {IF lz4_fails THEN [status |-> CompressionFailure]
             ELSE lz4_compress(fs.output.data,
                      fs.max_output_size - sizeof_SaveFileHeader - fs.compressed_info_size)} :
          IF compressed.status # Ok THEN FsFailed(compressed.status)
          ELSE fs' = [fs EXCEPT !.pc = "header",
                                !.compressed_data_size = Len(compressed.bytes),
                                !.files[temp_path(fs.file_path)] =
                                    StoreAt(@, sizeof_SaveFileHeader + fs.compressed_info_size,
                                            compressed.bytes)]
    /\ FsUnchanged

\* The sizes are checked to fit an int and the header is stored in the view
WriteHeader ==
    /\ fs # NotRun
    /\ fs.pc = "header"
    /\ IF \E size \in {fs.compressed_info_size, Len(fs.output.info),
                       fs.compressed_data_size, Len(fs.output.data)} : size > 2147483647
       THEN FsFailed(OutputTooLarge)
       ELSE fs' = [fs EXCEPT !.pc = "truncate",
                             !.files[temp_path(fs.file_path)] =
                                 StoreAt(@, 0,
                                     HeaderBytes(SaveFileHeader(mm_save_file_magic,
                                         mm_save_file_supported_version,
                                         fs.compressed_info_size, Len(fs.output.info),
                                         fs.compressed_data_size, Len(fs.output.data))))]
    /\ FsUnchanged

\* write_truncate_and_rename, first half: the view is unmapped and the file
\* is cut to the bytes that were written
Truncate(fault) ==
    /\ fs # NotRun
    /\ fs.pc = "truncate"
    /\ \E new_size \in {sizeof_SaveFileHeader + fs.compressed_info_size
                            + fs.compressed_data_size} :
          IF new_size # fs.max_output_size /\ fault
          THEN FsFailed(FailedToTruncateFile)
          ELSE fs' = [fs EXCEPT !.pc = "rename",
                                !.files[temp_path(fs.file_path)] = First(@, new_size)]
    /\ FsUnchanged

\* write_truncate_and_rename, second half: the temporary file is renamed to
\* the destination, replacing a file there only when allow_overwrite
Rename(fault) ==
    /\ fs # NotRun
    /\ fs.pc = "rename"
    /\ IF fault \/ (fs.files[fs.file_path] # NoFile /\ ~fs.allow_overwrite)
       THEN FsFailed(FailedToWriteFile)
       ELSE fs' = [fs EXCEPT !.pc = "done",
                             !.files = [path \in FsPaths |->
                                           IF path = fs.file_path
                                           THEN fs.files[temp_path(fs.file_path)]
                                           ELSE IF path = temp_path(fs.file_path)
                                           THEN NoFile
                                           ELSE fs.files[path]]]
    /\ FsUnchanged

NextFs ==
    \/ \E file_path \in SavePaths, allow_overwrite \in BOOLEAN :
          WriteCalled(file_path, "n", allow_overwrite)
    \/ \E fault \in {"none", "create_file", "create_mapping", "map_view"} : CreateTemp(fault)
    \/ \E lz4_fails \in BOOLEAN : CompressInfo(lz4_fails)
    \/ \E lz4_fails \in BOOLEAN : CompressData(lz4_fails)
    \/ WriteHeader
    \/ \E fault \in BOOLEAN : Truncate(fault)
    \/ \E fault \in BOOLEAN : Rename(fault)

SpecFs == InitFs /\ [][NextFs]_vars

\* The whole new file is in the temporary file: the header, the two
\* compressed segments after it, and nothing more
TempIsComplete ==
    /\ fs.output.status = Ok
    /\ fs.files[temp_path(fs.file_path)] = written_container(fs.output).bytes
    /\ Len(fs.files[temp_path(fs.file_path)])
           = sizeof_SaveFileHeader + fs.compressed_info_size + fs.compressed_data_size

C12_Step ==
    /\ fs'.pc = "failed" => fs'.files[fs'.file_path] = fs'.dest_before
    /\ fs'.files[fs'.file_path] # fs.files[fs'.file_path] =>
          /\ fs.pc = "rename"
          /\ fs'.pc = "done"
          /\ TempIsComplete
          /\ fs'.files[fs.file_path] = fs.files[temp_path(fs.file_path)]

\* C12: when write fails the file at the destination path is what it was
\* before the call; the destination changes only in the rename, by when the
\* temporary file holds the header and both segments and is cut to its size.
C12_DestinationChangesOnlyByRename == [][C12_Step]_vars

\* The rename failed on a destination that held a file, after an earlier
\* write had replaced it
C12_Witness ==
    /\ fs # NotRun
    /\ fs.pc = "failed"
    /\ fs.status = FailedToWriteFile
    /\ fs.dest_before # NoFile
    /\ fs.dest_before # OtherFile
    /\ fs.files[fs.file_path] = fs.dest_before
    /\ fs.files[temp_path(fs.file_path)] # NoFile


(***************************************************************************)
(* SpecShared: the save file has a driver whose object holds the key       *)
(* contract twice, so the reference to the player team is found in it      *)
(* twice.  The file is opened, edited and written as in Spec.              *)
(***************************************************************************)
\* The data text: the first person has two contracts with the player team
TwiceData(token) ==
    "{\"mPlayerTeam\":{\"$id\":\"7\"},\"mDrivers\":["
        \o "{\"mCarID\":" \o token \o ",\"mFirstName\":\"Al\",\"mLastName\":\"A\","
        \o "\"contract\":{" \o EmployeerTeamRef("7") \o "},"
        \o "\"contract\":{" \o EmployeerTeamRef("7") \o "}},"
        \o "{\"mCarID\":1,\"mFirstName\":\"Bo\",\"mLastName\":\"B\","
        \o "\"contract\":{" \o EmployeerTeamRef("7") \o "}}]}"

InitShared ==
    /\ \E token \in {"-1", "0", "1"} :
          file = Container(InfoText(OriginalName), TwiceData(token))
    /\ header_fields = NoFields
    /\ parsed_header = NotRun
    /\ opened = NotRun
    /\ session = NoSession
    /\ uncompressed_output = NotRun
    /\ written = NotRun
    /\ reopened = NotRun
    /\ window = NotRun
    /\ fs = NotRun
    /\ buffer = ""
    /\ document = NotRun
    /\ nav = NotRun
    /\ com = NotRun

SpecShared == InitShared /\ [][Next]_vars

\* C13: whatever session was opened, whatever positions were set and
\* whatever name is given, create_uncompressed_output ends in neither
\* 'copy out of memory' nor 'bad copy': both buffers are filled exactly.
C13_OutputBuffersFilledExactly ==
    /\ uncompressed_output.status # CopyOutOfMemory
    /\ uncompressed_output.status # BadCopy


(***************************************************************************)
(* The container that write produces, read byte by byte.                   *)
(***************************************************************************)
\* The little-endian 32-bit number in the k-th field of the written header
WrittenField(k) ==
    written.bytes[4 * k + 1] + 256 * written.bytes[4 * k + 2]
        + 65536 * written.bytes[4 * k + 3] + 16777216 * written.bytes[4 * k + 4]

\* The bytes of the written container from offset from, count of them
WrittenSegment(from, count) == SubSeq(written.bytes, from + 1, from + count)

\* C14: the written container starts with magic 1932684653 and version 4;
\* its decompressed sizes are the lengths of the new info and data texts;
\* its compressed sizes are the lengths of the two segments, the info
\* segment at offset 24 and the data segment right after it, each
\* decompressing to its text; the file is 24 bytes and the two segments
\* long; and its header is accepted when it is read again.
C14_WrittenContainerLayout ==
    written.status = Ok =>
        /\ Len(written.bytes) >= 24
        /\ WrittenField(0) = 1932684653
        /\ WrittenField(1) = 4
        /\ WrittenField(3) = Len(uncompressed_output.info)
        /\ WrittenField(5) = Len(uncompressed_output.data)
        /\ Len(written.bytes) = 24 + WrittenField(2) + WrittenField(4)
        /\ lz4_decompress(WrittenSegment(24, WrittenField(2)), WrittenField(3))
               = [status |-> Ok, text |-> uncompressed_output.info]
        /\ lz4_decompress(WrittenSegment(24 + WrittenField(2), WrittenField(4)),
                          WrittenField(5))
               = [status |-> Ok, text |-> uncompressed_output.data]
        /\ read_save_file_header(written.bytes).status = Ok
        /\ reopened.status # "not run" => reopened.status = Ok

\* A container with edited positions and a new name was written and opened
C14_Witness ==
    /\ written.status = Ok
    /\ uncompressed_output.status = Ok
    /\ ~Unedited
    /\ uncompressed_output.new_save_name # SessionSaveName
    /\ WrittenField(2) # WrittenField(3)
    /\ reopened.status = Ok


(***************************************************************************)
(* SpecQuote: the two quote scans are applied to every text of quotes,     *)
(* backslashes and one other character up to a length.                     *)
(***************************************************************************)
MaxBufferLen == 6

QuoteAlphabet == {"\"", "\\", "a"}

RECURSIVE TextsOfLength(_, _)
TextsOfLength(alphabet, n) ==
    IF n = 0 THEN {""}
    ELSE {text \o char : text \in TextsOfLength(alphabet, n - 1), char \in alphabet}

QuoteBuffers == UNION {TextsOfLength(QuoteAlphabet, n) : n \in 0..MaxBufferLen}

\* The offsets of buffer that hold the character
OffsetsOf(char) == {i \in 0..(Len(buffer) - 1) : At(buffer, i) = char}

InitQuote ==
    /\ file = <<>>
    /\ header_fields = NoFields
    /\ parsed_header = NotRun
    /\ opened = NotRun
    /\ session = NoSession
    /\ uncompressed_output = NotRun
    /\ written = NotRun
    /\ reopened = NotRun
    /\ window = NotRun
    /\ fs = NotRun
    /\ buffer \in QuoteBuffers
    /\ document = NotRun
    /\ nav = NotRun
    /\ com = NotRun

NavUnchanged ==
    UNCHANGED <<file, header_fields, parsed_header, opened, session, uncompressed_output,
                written, reopened, window, fs, buffer, document, com>>

\* find_closing_quote is called at a quote
FindClosingQuote(offset) ==
    /\ nav' = [status |-> "find_closing_quote", offset |-> offset,
               result |-> find_closing_quote(buffer, offset)]
    /\ NavUnchanged

\* rfind_opening_quote is called at a quote
RfindOpeningQuote(offset) ==
    /\ nav' = [status |-> "rfind_opening_quote", offset |-> offset,
               result |-> rfind_opening_quote(buffer, offset)]
    /\ NavUnchanged

NextQuote ==
    \/ \E offset \in OffsetsOf("\"") : FindClosingQuote(offset)
    \/ \E offset \in OffsetsOf("\"") : RfindOpeningQuote(offset)

SpecQuote == InitQuote /\ [][NextQuote]_vars

\* The number of consecutive backslashes right before offset i, counted back
\* to but not including offset stop
RECURSIVE BackslashesBefore(_, _)
BackslashesBefore(i, stop) ==
    IF i - 1 > stop /\ At(buffer, i - 1) = "\\" THEN 1 + BackslashesBefore(i - 1, stop)
    ELSE 0

\* The quotes after the opening quote that an even number of backslashes
\* precedes
ClosingQuotesAfter(opening) ==
    {i \in OffsetsOf("\"") : i > opening /\ BackslashesBefore(i, opening) % 2 = 0}

\* C15: find_closing_quote at an opening quote returns the first later quote
\* that an even number of backslashes (none included) precedes, counted back
\* to the opening quote, and fails with MalformedJson when there is none.
C15_ClosingQuoteIsFirstUnescaped ==
    nav.status = "find_closing_quote" =>
        IF ClosingQuotesAfter(nav.offset) = {} THEN nav.result = MalformedJson
        ELSE /\ nav.result \in ClosingQuotesAfter(nav.offset)
             /\ \A i \in ClosingQuotesAfter(nav.offset) : nav.result <= i

\* An escaped quote inside the string was passed over
C15_Witness ==
    /\ nav.status = "find_closing_quote"
    /\ nav.result > nav.offset + 3
    /\ \E i \in OffsetsOf("\"") : nav.offset < i /\ i < nav.result

\* The quotes before offset c, by the number of backslashes before them
QuotesBefore(c, parities) ==
    {i \in OffsetsOf("\"") : i < c /\ BackslashesBefore(i, -1) % 2 \in parities}

\* C16: rfind_opening_quote undoes find_closing_quote: called at the closing
\* quote found from an opening quote that is not at offset 0 and has no
\* backslash before it, it returns that opening quote.  The quotes it passes
\* over all have an odd number of backslashes before them, and it fails with
\* MalformedJson when no quote with an even number lies before the offset.
C16_OpeningQuoteIsInverse ==
    nav.status = "rfind_opening_quote" =>
        /\ \A o \in OffsetsOf("\"") :
              (/\ o > 0
               /\ At(buffer, o - 1) # "\\"
               /\ find_closing_quote(buffer, o) = nav.offset) => nav.result = o
        /\ QuotesBefore(nav.offset, {0}) = {} => nav.result = MalformedJson
        /\ nav.result # MalformedJson =>
              /\ nav.result \in QuotesBefore(nav.offset, {0})
              /\ \A i \in QuotesBefore(nav.offset, {0, 1}) :
                    i > nav.result => BackslashesBefore(i, -1) % 2 = 1

\* The closing quote of a string that holds an escaped quote was scanned back
\* to the opening quote, which is not at offset 0
C16_Witness ==
    /\ nav.status = "rfind_opening_quote"
    /\ nav.result > 0
    /\ find_closing_quote(buffer, nav.result) = nav.offset
    /\ \E i \in OffsetsOf("\"") : nav.result < i /\ i < nav.offset


(***************************************************************************)
(* SpecJson: the navigators are applied to JSON texts without white space. *)
(* A JSON value is built together with what its text holds: the pairs of   *)
(* offsets of its matching braces, and for each object in it the offset of *)
(* its opening brace and its key/value pairs in the order of the text.     *)
(* The navigators read the text and leave it as it is, so one call is      *)
(* followed on each document.                                              *)
(***************************************************************************)
MaxMembers == 3

JsonValue(text, braces, objects) == [text |-> text, braces |-> braces, objects |-> objects]

\* A number, a string that holds a bracket, an escaped quote and a brace, and
\* a string that ends in an escaped backslash
JsonLeaves ==
    {JsonValue(text, {}, {}) : text \in {"12", "\"[\\\"}\"", "\"\\\\\""}}

\* The value of the members beside the nested one in an object or array
JsonFiller == JsonValue("12", {}, {})

\* The key of the i-th pair of an object: the first and the third are equal
MemberKey(i) == IF i % 2 = 1 THEN "k" ELSE "{\\\""

ShiftPairs(pairs, by) ==
    [n \in 1..Len(pairs) |->
        [key |-> pairs[n].key, key_offset |-> pairs[n].key_offset + by,
         value_offset |-> pairs[n].value_offset + by]]

\* What a value holds, when its text starts at offset by of a larger text
ShiftBraces(braces, by) == {<<pair[1] + by, pair[2] + by>> : pair \in braces}
ShiftObjects(objects, by) ==
    {[open |-> object.open + by, pairs |-> ShiftPairs(object.pairs, by)] : object \in objects}

\* An object or array being written: the text so far and what it holds
AddMember(kind, partial, i, member) ==
    LET place(key_offset, value_offset) ==
            [text |-> partial.text
                          \o (IF i = 1 THEN "" ELSE ",")
                          \o (IF kind = "object" THEN "\"" \o MemberKey(i) \o "\":" ELSE "")
                          \o member.text,
             braces |-> partial.braces \cup ShiftBraces(member.braces, value_offset),
             objects |-> partial.objects \cup ShiftObjects(member.objects, value_offset),
             pairs |-> IF kind = "object"
                       THEN Append(partial.pairs,
                                   [key |-> MemberKey(i), key_offset |-> key_offset,
                                    value_offset |-> value_offset])
                       ELSE <<>>]
        from(key_offset) ==
            place(key_offset,
                  key_offset + (IF kind = "object" THEN Len(MemberKey(i)) + 3 ELSE 0))
    IN  from(Len(partial.text) + (IF i = 1 THEN 0 ELSE 1))

RECURSIVE AddMembers(_, _, _, _)
AddMembers(kind, partial, members, i) ==
    IF i > Len(members) THEN partial
    ELSE AddMembers(kind, AddMember(kind, partial, i, members[i]), members, i + 1)

\* The object or array of the members
JsonContainer(kind, members) ==
    LET close(partial) ==
            JsonValue(partial.text \o (IF kind = "object" THEN "}" ELSE "]"),
                      partial.braces \cup {<<0, Len(partial.text)>>},
                      partial.objects
                          \cup (IF kind = "object"
                                THEN {[open |-> 0, pairs |-> partial.pairs]} ELSE {}))
    IN  close(AddMembers(kind,
                         [text |-> IF kind = "object" THEN "{" ELSE "[", braces |-> {},
                          objects |-> {}, pairs |-> <<>>],
                         members, 1))

\* The objects and arrays of up to MaxMembers members of which one is of the
\* nested values and the others are the filler
JsonNested(nested) ==
    UNION {{JsonContainer(kind, [i \in 1..count |-> IF i = at THEN inner ELSE JsonFiller]) :
               kind \in {"object", "array"}, inner \in nested} :
           count \in 1..MaxMembers, at \in 1..MaxMembers}

\* The leaves, the empty object and array, the objects and arrays of those,
\* and the objects and arrays of these
JsonFlat == JsonLeaves \cup {JsonContainer(kind, <<>>) : kind \in {"object", "array"}}
JsonDocuments == JsonFlat \cup JsonNested(JsonFlat) \cup JsonNested(JsonNested(JsonFlat))

InitJson ==
    /\ file = <<>>
    /\ header_fields = NoFields
    /\ parsed_header = NotRun
    /\ opened = NotRun
    /\ session = NoSession
    /\ uncompressed_output = NotRun
    /\ written = NotRun
    /\ reopened = NotRun
    /\ window = NotRun
    /\ fs = NotRun
    /\ document \in JsonDocuments
    /\ buffer = document.text
    /\ nav = NotRun
    /\ com = NotRun

\* The offsets of the braces and brackets of the document outside strings
BraceOffsets == {pair[1] : pair \in document.braces} \cup {pair[2] : pair \in document.braces}

\* find_matching_brace is called at a brace, and again at what it returned
FindMatchingBrace(offset) ==
    /\ document # NotRun
    /\ nav = NotRun
    /\ \E result \in {find_matching_brace(buffer, offset)} :
          nav' = [status |-> "find_matching_brace", offset |-> offset, result |-> result,
                  back |-> IF result < 0 THEN result
                           ELSE find_matching_brace(buffer, result)]
    /\ NavUnchanged


\* The offsets of the opening quotes of the keys of the document's objects
KeyOffsets ==
    UNION {{object.pairs[n].key_offset : n \in 1..Len(object.pairs)} :
              object \in document.objects}

\* The calls made of a callback that returns false at its stop_at-th call
\* (never, when stop_at is 0), and whether the walk then still throws
calls_until_stop(walk, stop_at) ==
    IF stop_at = 0 \/ stop_at > Len(walk.visits) THEN walk
    ELSE [visits |-> SubSeq(walk.visits, 1, stop_at), threw |-> FALSE]

\* for_sibling_key_values_in_object is called at the opening quote of a key
ForSiblingKeyValues(start_offset, stop_at) ==
    /\ document # NotRun
    /\ nav = NotRun
    /\ \E walk \in {calls_until_stop(for_sibling_key_values_in_object(buffer, start_offset),
                                     stop_at)} :
          nav' = [status |-> "for_sibling_key_values_in_object", offset |-> start_offset,
                  stop_at |-> stop_at, calls |-> walk.visits, threw |-> walk.threw]
    /\ NavUnchanged

\* The keys that are looked up: the keys of the objects and one they lack
SoughtKeys == {MemberKey(i) : i \in 1..MaxMembers} \cup {"z"}

\* lookup_value_in_object is called at an opening brace or bracket
LookupValueInObject(object_opening_brace_offset, sought_key) ==
    /\ document # NotRun
    /\ nav = NotRun
    /\ nav' = [status |-> "lookup_value_in_object", offset |-> object_opening_brace_offset,
               sought_key |-> sought_key,
               result |-> lookup_value_in_object(buffer, object_opening_brace_offset,
                                                 sought_key)]
    /\ NavUnchanged

NextJson ==
    \/ \E offset \in BraceOffsets : FindMatchingBrace(offset)
    \/ \E start_offset \in KeyOffsets, stop_at \in 0..MaxMembers :
          ForSiblingKeyValues(start_offset, stop_at)
    \/ \E pair \in document.braces, sought_key \in SoughtKeys :
          LookupValueInObject(pair[1], sought_key)

SpecJson == InitJson /\ [][NextJson]_vars

\* C17: on valid JSON without white space, find_matching_brace at a brace
\* or bracket outside strings returns the offset of its partner, whatever
\* is nested between them and whatever braces the strings hold; called at
\* the partner it returns the offset it started from.
C17_MatchingBraceIsPartner ==
    nav.status = "find_matching_brace" =>
        /\ \/ <<nav.offset, nav.result>> \in document.braces
           \/ <<nav.result, nav.offset>> \in document.braces
        /\ nav.back = nav.offset

\* The partner of a closing brace was found over a nested array and a
\* string that holds an escaped quote and a brace
C17_Witness ==
    /\ nav.status = "find_matching_brace"
    /\ At(buffer, nav.offset) = "}"
    /\ nav.result >= 0
    /\ nav.offset > nav.result
    /\ \E pair \in document.braces :
          /\ nav.result < pair[1]
          /\ pair[2] < nav.offset
          /\ At(buffer, pair[1]) = "["
    /\ \E i \in (nav.result + 1)..(nav.offset - 3) :
          SubSeq(buffer, i + 1, i + 3) = "\\\"}"


\* The calls for_sibling_key_values_in_object is to make from the k-th of the
\* pairs: the pairs from the k-th to the last, then those before the k-th
\* from the nearest to the first; only the first stop_at of them when the
\* callback stops
ExpectedCalls(pairs, k, stop_at) ==
    LET count == Len(pairs)
        all == [j \in 1..count |->
                   IF j <= count - k + 1 THEN pairs[k + j - 1]
                   ELSE pairs[k - (j - (count - k + 1))]]
        made == IF stop_at = 0 \/ stop_at > count THEN count ELSE stop_at
    IN  [j \in 1..made |-> [key |-> all[j].key, value |-> all[j].value_offset]]

\* C18: called at a key of an object of valid JSON without white space,
\* for_sibling_key_values_in_object calls the visitor once for each pair of
\* that object with its key text and the offset of its value, first from the
\* starting key to the last pair, then from the pair before the starting key
\* back to the first, and for no key of a nested or enclosing object; after
\* the visitor has returned stop it is not called again.
C18_SiblingsVisitedOnceInOrder ==
    nav.status = "for_sibling_key_values_in_object" =>
        \A object \in document.objects :
            \A k \in 1..Len(object.pairs) :
                object.pairs[k].key_offset = nav.offset =>
                    /\ ~nav.threw
                    /\ nav.calls = ExpectedCalls(object.pairs, k, nav.stop_at)

\* The visitor never stopped; the walk started at the second of three keys of
\* an object whose first value is an object with the same keys
C18_Witness ==
    /\ nav.status = "for_sibling_key_values_in_object"
    /\ nav.stop_at = 0
    /\ Len(nav.calls) = 3
    /\ \E object \in document.objects, inner \in document.objects :
          /\ Len(object.pairs) = 3
          /\ object.pairs[2].key_offset = nav.offset
          /\ nav.calls[3].value = object.pairs[1].value_offset
          /\ inner.open = object.pairs[1].value_offset
          /\ Len(inner.pairs) > 1

\* The least n with the sought key among the pairs, or 0
FirstWithKey(pairs, sought_key) ==
    LET with_key == {n \in 1..Len(pairs) : pairs[n].key = sought_key}
    IN  IF with_key = {} THEN 0 ELSE CHOOSE n \in with_key : \A m \in with_key : n <= m

\* C19: lookup_value_in_object at the opening brace of an object returns the
\* offset of the value of the first pair of that object whose key is the
\* sought key, and nothing when the object has no such pair, whatever keys
\* the values of the object hold; it fails with MalformedJson when the
\* character after the brace is neither a quote nor a closing brace.
C19_LookupFindsFirstTopLevelPair ==
    nav.status = "lookup_value_in_object" =>
        /\ \A object \in document.objects :
              object.open = nav.offset =>
                  nav.result =
                      IF FirstWithKey(object.pairs, nav.sought_key) = 0 THEN npos
                      ELSE object.pairs[FirstWithKey(object.pairs,
                                                     nav.sought_key)].value_offset
        /\ (At(buffer, nav.offset + 1) # "\"" /\ At(buffer, nav.offset + 1) # "}")
               => nav.result = MalformedJson

\* The sought key is the key of two pairs of the object and of a pair of an
\* object nested in a value before them
C19_Witness ==
    /\ nav.status = "lookup_value_in_object"
    /\ nav.result >= 0
    /\ \E object \in document.objects, inner \in document.objects :
          /\ object.open = nav.offset
          /\ Len(object.pairs) = 3
          /\ object.pairs[2].key = nav.sought_key
          /\ object.pairs[2].value_offset = nav.result
          /\ inner.open = object.pairs[1].value_offset
          /\ FirstWithKey(inner.pairs, nav.sought_key) > 0


(***************************************************************************)
(* SpecRefs: save files whose data text holds, beside the three drivers    *)
(* of the player team, people who refer to the player team in an object    *)
(* that is the value of another key than contract.                         *)
(***************************************************************************)
MaxOthers == 2

\* An object with mCarID and names that refers to team 7 in the value of key
EmployeeObject(key, layout, first, last, token) ==
    LET held == "\"" \o key \o "\":{" \o EmployeerTeamRef("7") \o "}"
        named == "\"mFirstName\":\"" \o first \o "\",\"mLastName\":\"" \o last \o "\""
    IN  IF layout = "car_first" THEN "{\"mCarID\":" \o token \o "," \o named \o "," \o held \o "}"
        ELSE IF layout = "car_last" THEN "{" \o held \o "," \o named \o ",\"mCarID\":" \o token \o "}"
        ELSE "{" \o named \o "," \o held \o ",\"mCarID\":" \o token \o "}"

\* The keys under which the others refer to the team: none is contract, the
\* last ends in an escaped quote and the letters of contract
OtherKeys == {"sponsor", "xcontract", "contracts", "a\\\"contract"}

\* The others of a save file: each a key and a layout
OthersOfLength(n) == [1..n -> OtherKeys \X Layouts]

RECURSIVE OthersText(_, _)
OthersText(others, n) ==
    IF n > Len(others) THEN ""
    ELSE "," \o EmployeeObject(others[n][1], others[n][2], "Ot", "O", "1")
             \o OthersText(others, n + 1)

RefsData(others) ==
    "{\"mPlayerTeam\":{\"$id\":\"7\"},\"mDrivers\":["
        \o EmployeeObject("contract", "car_first", "Al", "A", "-1") \o ","
        \o EmployeeObject("contract", "car_last", "Bo", "B", "0") \o ","
        \o EmployeeObject("contract", "mixed", "Cy", "C", "1")
        \o OthersText(others, 1) \o "]}"

InitRefs ==
    /\ \E n \in 0..MaxOthers : \E others \in OthersOfLength(n) :
          /\ document = [status |-> Ok, others |-> others]
          /\ file = Container(InfoText(OriginalName), RefsData(others))
    /\ header_fields = NoFields
    /\ parsed_header = NotRun
    /\ opened = NotRun
    /\ session = NoSession
    /\ uncompressed_output = NotRun
    /\ written = NotRun
    /\ reopened = NotRun
    /\ window = NotRun
    /\ fs = NotRun
    /\ buffer = ""
    /\ nav = NotRun
    /\ com = NotRun

SpecRefs == InitRefs /\ [][Open]_vars

\* The save file was opened and its drivers are the three under contract
ThreeContractDrivers ==
    /\ opened.status = Ok
    /\ session.status = Ok
    /\ [k \in 1..3 |-> session.drivers[k].name] = <<"Al A", "Bo B", "Cy C">>

\* C20: a reference to the player team counts only in an object that is the
\* value of a key named contract: from a data text with three such
\* references in the contracts of people with mCarID and names, and others
\* in objects under other keys, exactly the three drivers are extracted.
C20_OnlyContractRefsCount ==
    opened.status # "not run" => ThreeContractDrivers

\* The same, for the others whose key does not end in a quote and contract
C20_OtherKeysAreIgnored ==
    (/\ opened.status # "not run"
     /\ \A n \in 1..Len(document.others) : document.others[n][1] # "a\\\"contract")
        => ThreeContractDrivers


(***************************************************************************)
(* The drivers of a session.                                               *)
(***************************************************************************)
\* C21: in every opened session the three driver records lie at strictly
\* ascending offsets, each original_position is the position decoded from
\* the token at the record's offset, and neither the order nor the offsets
\* change when positions are set or the file is written.
C21_DriversStrictlyAscending ==
    session.status = Ok =>
        /\ Len(session.drivers) = 3
        /\ Ascending(session.drivers)
        /\ \A k \in 1..3 :
              \E parsed \in {parse_driver_position(session.save_data,
                                 session.drivers[k].car_id_file_offset)} :
                 /\ parsed.status = Ok
                 /\ parsed.position = session.drivers[k].original_position


(***************************************************************************)
(* SpecStaff: save files whose data text holds, beside the three drivers   *)
(* of the player team, people under contract with the player team whose    *)
(* objects have no mCarID.                                                 *)
(***************************************************************************)
\* An object under contract with team 7 without mCarID.  first and last are
\* the raw values of mFirstName and mLastName, "" for a key that is absent.
StaffObject(first, last, contract_first) ==
    LET held == "\"contract\":{" \o EmployeerTeamRef("7") \o "}"
        named == (IF first = "" THEN "" ELSE ",\"mFirstName\":" \o first)
                     \o (IF last = "" THEN "" ELSE ",\"mLastName\":" \o last)
    IN  IF contract_first THEN "{" \o held \o ",\"mAge\":30" \o named \o "}"
        ELSE "{\"mAge\":30" \o named \o "," \o held \o "}"

\* The raw values: a string, a number or null, or no key
StaffFirstNames == {"\"St\"", "12", ""}
StaffLastNames == {"\"S\"", "null"}

\* The staff of a save file
StaffOfLength(n) == [1..n -> StaffFirstNames \X StaffLastNames \X BOOLEAN]

RECURSIVE StaffText(_, _)
StaffText(staff, n) ==
    IF n > Len(staff) THEN ""
    ELSE "," \o StaffObject(staff[n][1], staff[n][2], staff[n][3]) \o StaffText(staff, n + 1)

StaffData(staff) ==
    "{\"mPlayerTeam\":{\"$id\":\"7\"},\"mDrivers\":["
        \o EmployeeObject("contract", "car_first", "Al", "A", "-1") \o ","
        \o EmployeeObject("contract", "car_last", "Bo", "B", "0") \o ","
        \o EmployeeObject("contract", "mixed", "Cy", "C", "1")
        \o StaffText(staff, 1) \o "]}"

InitStaff ==
    /\ \E n \in 0..MaxOthers : \E staff \in StaffOfLength(n) :
          /\ document = [status |-> Ok, staff |-> staff]
          /\ file = Container(InfoText(OriginalName), StaffData(staff))
    /\ header_fields = NoFields
    /\ parsed_header = NotRun
    /\ opened = NotRun
    /\ session = NoSession
    /\ uncompressed_output = NotRun
    /\ written = NotRun
    /\ reopened = NotRun
    /\ window = NotRun
    /\ fs = NotRun
    /\ buffer = ""
    /\ nav = NotRun
    /\ com = NotRun

SpecStaff == InitStaff /\ [][Open]_vars

\* C22: an object under contract with the player team that has no mCarID
\* adds no driver and no error, whatever its other fields are: the open
\* succeeds with the three drivers.
C22_NoCarIdIsSkipped ==
    opened.status # "not run" => ThreeContractDrivers

\* The same, for the staff whose names are strings
C22_NamedStaffIsSkipped ==
    (/\ opened.status # "not run"
     /\ \A n \in 1..Len(document.staff) :
           document.staff[n][1] # "12" /\ document.staff[n][2] # "null")
        => ThreeContractDrivers


(***************************************************************************)
(* SpecPosition: parse_driver_position is called at the first character    *)
(* of a token in a buffer, and the token is replaced by the one            *)
(* get_position_as_json_value gives for a position and parsed again.       *)
(***************************************************************************)
PositionTokens == {"-1", "0", "1", "2", "10", "-10", "-2", "\"0\"", "01", "-", "11"}
PositionPrefixes == {"", "{\"mCarID\":"}
\* What follows the token: the character right after it and the rest
PositionTerminators == {",", "}", "]", " "}
PositionRests == {"", "\"a\":1}", "]"}

InitPosition ==
    /\ file = <<>>
    /\ header_fields = NoFields
    /\ parsed_header = NotRun
    /\ opened = NotRun
    /\ session = NoSession
    /\ uncompressed_output = NotRun
    /\ written = NotRun
    /\ reopened = NotRun
    /\ window = NotRun
    /\ fs = NotRun
    /\ \E prefix \in PositionPrefixes, token \in PositionTokens,
          terminator \in PositionTerminators, rest \in PositionRests :
          /\ document = [status |-> Ok, prefix |-> prefix, token |-> token,
                         terminator |-> terminator, rest |-> rest]
          /\ buffer = prefix \o token \o terminator \o rest
    /\ nav = NotRun
    /\ com = NotRun

\* parse_driver_position is called at the token
ParseDriverPosition ==
    /\ nav = NotRun
    /\ nav' = [status |-> "parse_driver_position",
               result |-> parse_driver_position(buffer, Len(document.prefix))]
    /\ NavUnchanged

\* The token is replaced by get_position_as_json_value( p ), as
\* create_uncompressed_output does, and parse_driver_position is called at it
WritePosition(p) ==
    /\ nav = NotRun
    /\ \E written_buffer \in {document.prefix \o get_position_as_json_value(p)
                                  \o document.terminator \o document.rest} :
          /\ buffer' = written_buffer
          /\ nav' = [status |-> "get_position_as_json_value", position |-> p,
                     result |-> parse_driver_position(written_buffer, Len(document.prefix))]
    /\ document' = [document EXCEPT !.token = get_position_as_json_value(p)]
    /\ UNCHANGED <<file, header_fields, parsed_header, opened, session, uncompressed_output,
                   written, reopened, window, fs, com>>

NextPosition ==
    \/ ParseDriverPosition
    \/ \E p \in DriverPosition : WritePosition(p)

SpecPosition == InitPosition /\ [][NextPosition]_vars

\* What the token of document decodes to, as the format states it
DecodedToken ==
    IF document.terminator \notin {",", "}"} THEN [status |-> InvalidPositionValue]
    ELSE IF document.token = "-1" THEN [status |-> Ok, position |-> reserve]
    ELSE IF document.token = "0" THEN [status |-> Ok, position |-> car1]
    ELSE IF document.token = "1" THEN [status |-> Ok, position |-> car2]
    ELSE [status |-> InvalidPositionValue]

\* C23: the token -1, 0 or 1 that ends at a ',' or '}' decodes to reserve,
\* car1 or car2, every other token fails with InvalidPositionValue, and the
\* token written for a position decodes to that position.
C23_TokenDecoding ==
    nav.status \in {"parse_driver_position", "get_position_as_json_value"} =>
        nav.result = DecodedToken

\* The same, when at least two characters follow the first one of the token
C23_TokenDecodingInside ==
    (/\ nav.status \in {"parse_driver_position", "get_position_as_json_value"}
     /\ Len(document.prefix) + 2 < Len(buffer))
        => nav.result = DecodedToken

\* Where fewer follow, parse_driver_position fails for invalid JSON
C23_TokenAtEndIsInvalidJson ==
    (/\ nav.status \in {"parse_driver_position", "get_position_as_json_value"}
     /\ ~(Len(document.prefix) + 2 < Len(buffer)))
        => nav.result = [status |-> InvalidSaveFile]


(***************************************************************************)
(* SpecCap: files whose header gives decompressed sizes up to the largest  *)
(* int are read and opened.                                                *)
(***************************************************************************)
\* The largest value of an int field of SaveFileHeader
INT_MAX == 2147483647

\* The decompressed sizes: the true one, 1, 1 GiB, 2 GiB - 1, and 0, -1 and
\* the smallest int
CapSizes(true_size) == {true_size, 1, GiB, INT_MAX - 1, INT_MAX, 0, -1, -INT_MAX - 1}

CapHeaderFields ==
    {SaveFileHeader(magic, version, TrueSizes[1], info_size, TrueSizes[3], data_size) :
        magic \in {mm_save_file_magic, mm_save_file_magic + 1},
        version \in {mm_save_file_supported_version, mm_save_file_supported_version + 1},
        info_size \in CapSizes(TrueSizes[2]), data_size \in CapSizes(TrueSizes[4])}

InitCap ==
    /\ \E made_with \in CapHeaderFields :
          /\ header_fields = made_with
          /\ file = HeaderBytes(made_with) \o TrueBody
    /\ parsed_header = NotRun
    /\ opened = NotRun
    /\ session = NoSession
    /\ uncompressed_output = NotRun
    /\ written = NotRun
    /\ reopened = NotRun
    /\ window = NotRun
    /\ fs = NotRun
    /\ buffer = ""
    /\ document = NotRun
    /\ nav = NotRun
    /\ com = NotRun

SpecCap == InitCap /\ [][NextHeader]_vars

\* a + b <= 4 GiB = 2 * INT_MAX + 2 for two ints that are not negative,
\* neither sum nor bound passing the int range
WithinCap(a, b) ==
    LET over == a - (INT_MAX - b)
    IN  over <= 0 \/ over - 2 <= INT_MAX

\* C24: in every header that read_save_file_header accepts, the two
\* decompressed sizes are not negative, so that their sum as size_t is their
\* sum, and this sum is at most 4 GiB; a header with the right magic and
\* version and positive sizes whose decompressed sizes sum to more is
\* refused as too large, and no buffer is allocated for it.
C24_AcceptedSizesWithinCap ==
    /\ parsed_header.status = Ok
          => /\ parsed_header.header = header_fields
             /\ header_fields.decompressed_info_size >= 0
             /\ header_fields.decompressed_data_size >= 0
             /\ WithinCap(header_fields.decompressed_info_size,
                          header_fields.decompressed_data_size)
    /\ (/\ parsed_header.status # "not run"
        /\ header_fields.magic = mm_save_file_magic
        /\ header_fields.version = mm_save_file_supported_version
        /\ SizesPositive
        /\ ~WithinCap(header_fields.decompressed_info_size,
                      header_fields.decompressed_data_size))
          => parsed_header.status = TooLarge
    /\ opened.status = TooLarge => ~opened.decompressing

\* The header with both decompressed sizes the largest int, 2 bytes below
\* the cap together, was accepted
C24_Witness ==
    /\ parsed_header.status = Ok
    /\ header_fields.decompressed_info_size = INT_MAX
    /\ header_fields.decompressed_data_size = INT_MAX


(***************************************************************************)
(* SpecBrace: find_matching_brace is called at each opening brace of each  *)
(* text of up to MaxBufferLen braces, brackets and quotes, valid JSON or   *)
(* not.                                                                    *)
(***************************************************************************)
BraceAlphabet == {"{", "[", "}", "]", "\""}

InitBrace ==
    /\ file = <<>>
    /\ header_fields = NoFields
    /\ parsed_header = NotRun
    /\ opened = NotRun
    /\ session = NoSession
    /\ uncompressed_output = NotRun
    /\ written = NotRun
    /\ reopened = NotRun
    /\ window = NotRun
    /\ fs = NotRun
    /\ \E n \in 0..MaxBufferLen : buffer \in TextsOfLength(BraceAlphabet, n)
    /\ document = NotRun
    /\ nav = NotRun
    /\ com = NotRun

\* find_matching_brace is called at an opening brace
MatchOpeningBrace(offset) ==
    /\ nav = NotRun
    /\ nav' = [status |-> "find_matching_brace", offset |-> offset,
               result |-> find_matching_brace(buffer, offset)]
    /\ NavUnchanged

NextBrace == \E offset \in OffsetsOf("{") \cup OffsetsOf("[") : MatchOpeningBrace(offset)

SpecBrace == InitBrace /\ [][NextBrace]_vars

\* find_matching_brace at an opening brace returned or threw as an opening
\* brace should: an offset behind it that holds its closer, or MalformedJson
ForwardOrMalformed ==
    \/ nav.result = MalformedJson
    \/ /\ nav.result > nav.offset
       /\ At(buffer, nav.result) = (IF At(buffer, nav.offset) = "{" THEN "}" ELSE "]")

\* C25: on any buffer, find_matching_brace called at an opening brace
\* returns an offset behind it that holds the corresponding closer, or fails
\* with MalformedJson, also when the brace is the last character.
C25_OpeningBraceMatchesForward ==
    nav.status = "find_matching_brace" => ForwardOrMalformed

\* The same, for the opening braces that are not the last character
C25_InsideMatchesForward ==
    (nav.status = "find_matching_brace" /\ nav.offset + 1 < Len(buffer))
        => ForwardOrMalformed


(***************************************************************************)
(* Properties of saving through the window, under SpecGui.                 *)
(***************************************************************************)
\* The positions of the three drivers of the session
SessionPositions == [k \in 1..3 |-> session.drivers[k].position]

\* Car1, Car2 and Reserve are each the position of one of the three
EachPositionOnce(positions) == {positions[k] : k \in 1..3} = DriverPosition

C27_RowsShownOnlyWithSession ==
    /\ (window # NotRun /\ window.shown) => session.status = Ok
    /\ written.status # AssertFailed

\* C28: write is called with allow_overwrite set only after query_file found
\* a file at the path and the user answered yes; a file that is at the path
\* when the temporary file is renamed is replaced only then, and otherwise
\* the write fails and the file stays.
C28_ReplacedOnlyAfterYes ==
    (written.status # "not run" /\ written.called)
        => /\ written.allow_overwrite => (written.existed /\ written.answer = "yes")
           /\ (written.before # "none" /\ written.status = Ok)
                 => (written.existed /\ written.answer = "yes")
           /\ (written.before # "none" /\ ~written.allow_overwrite)
                 => /\ written.status # Ok
                    /\ fs.files[written.file_path] = written.before

\* A file created at the path after query_file found none made the write
\* fail at the rename and was left alone
C28_Witness ==
    /\ written.status = FailedToWriteFile
    /\ written.called
    /\ ~written.existed
    /\ ~written.allow_overwrite
    /\ written.before = "other"
    /\ fs.files[written.file_path] = "other"

\* The file at old.sav was replaced after the user answered yes
C28_WitnessReplaced ==
    /\ written.status = Ok
    /\ written.called
    /\ written.file_path = "old.sav"
    /\ written.allow_overwrite
    /\ written.before = "other"
    /\ fs.files["old.sav"] = "written"


(***************************************************************************)
(* Properties of the files that write leaves, under SpecFs.                *)
(***************************************************************************)
\* C29: a write that is called with allow_overwrite = false changes, at no
\* step, a file that was there when it was called, and when it has failed no
\* temporary file that it created is left.
C29_NoOverwriteLeavesFilesAlone ==
    (fs # NotRun /\ fs.pc # "idle" /\ ~fs.allow_overwrite)
        => /\ \A path \in FsPaths :
                 fs.files_before[path] # NoFile => fs.files[path] = fs.files_before[path]
           /\ (fs.pc = "failed" /\ fs.files_before[temp_path(fs.file_path)] = NoFile)
                 => fs.files[temp_path(fs.file_path)] = NoFile

\* The first half alone, for the files other than the temporary one
C29_OthersStay ==
    (fs # NotRun /\ fs.pc # "idle" /\ ~fs.allow_overwrite)
        => \A path \in FsPaths \ {temp_path(fs.file_path)} :
              fs.files_before[path] # NoFile => fs.files[path] = fs.files_before[path]


(***************************************************************************)
(* SpecDialog: win_open_mm_sav_file and win_save_mm_sav_file step by step. *)
(* Each COM object has the count of the references acquired on it and the  *)
(* count of the calls of Release on it; each UniqueCOMObjectHandle is the  *)
(* object it holds.  Every call of COM can fail.                           *)
(***************************************************************************)
\* COMObjectHandleTraits::null_value
null_value == "null"

ComObjects == {"dialog", "folder", "result"}
\* The HRESULTs of the failures: E_FAIL and E_ACCESSDENIED
Hresults == {"-2147467259", "-2147024891"}
DialogPaths == {"good.sav", "new.sav"}

\* UniqueHandle( Handle h ): the wrapper named name holds h
UniqueHandle(c, name, h) == [c EXCEPT !.wrappers[name] = h]

\* UniqueHandle::reset: a valid handle is closed, which for a COM object is
\* a call of Release, and the wrapper holds the null value
reset(c, name) ==
    IF c.wrappers[name] # null_value
    THEN [c EXCEPT !.released[c.wrappers[name]] = @ + 1, !.wrappers[name] = null_value]
    ELSE c

\* check_hresult throws: the wrappers in scope are destroyed, the last
\* constructed first
throw(c, hr) ==
    [reset(reset(reset(c, "shell_item_raii_wrapper"), "result_sell_item_raii_wrapper"),
           "dialog_raii_wrapper")
        EXCEPT !.pc = "threw", !.threw_at = c.pc,
               !.status = DialogError \o " (" \o hr \o ")"]

\* The function returns: the wrappers in scope are destroyed
return(c, status) ==
    [reset(reset(c, "result_sell_item_raii_wrapper"), "dialog_raii_wrapper")
        EXCEPT !.pc = "returned", !.status = status]

NoObjects ==
    [pc |-> "idle", status |-> "not run", call |-> "none", threw_at |-> "none",
     acquired |-> [object \in ComObjects |-> 0],
     released |-> [object \in ComObjects |-> 0],
     wrappers |-> [name \in {"dialog_raii_wrapper", "shell_item_raii_wrapper",
                             "result_sell_item_raii_wrapper"} |-> null_value]]

InitDialog ==
    /\ file = <<>>
    /\ header_fields = NoFields
    /\ parsed_header = NotRun
    /\ opened = NotRun
    /\ session = NoSession
    /\ uncompressed_output = NotRun
    /\ written = NotRun
    /\ reopened = NotRun
    /\ window = NotRun
    /\ fs = NotRun
    /\ buffer = ""
    /\ document = NotRun
    /\ nav = NotRun
    /\ com = NoObjects

DialogUnchanged ==
    UNCHANGED <<file, header_fields, parsed_header, opened, session, uncompressed_output,
                written, reopened, window, fs, buffer, document, nav>>

\* One step of the two functions: at pc, a call of COM fails with hr
\* ("ok": it succeeds) and otherwise control goes on as to gives
DialogStep(pc, hr, to) ==
    /\ com # NotRun
    /\ com.pc = pc
    /\ com' = IF hr # "ok" THEN throw(com, hr) ELSE to
    /\ DialogUnchanged

\* win_open_mm_sav_file or win_save_mm_sav_file is called
DialogCalled(call) ==
    /\ com # NotRun
    /\ com.pc \in {"idle", "returned", "threw"}
    /\ com' = [NoObjects EXCEPT !.pc = "create", !.call = call]
    /\ DialogUnchanged

\* CoCreateInstance, and the wrapper of the dialog
CoCreateInstance(hr) ==
    DialogStep("create", hr,
        UniqueHandle([com EXCEPT !.acquired["dialog"] = 1,
                                 !.pc = IF com.call = "save_suggesting" THEN "set_file_name"
                                        ELSE "options"],
                     "dialog_raii_wrapper", "dialog"))

\* dialog->SetFileName, when the suggested name is not empty
SetFileName(hr) == DialogStep("set_file_name", hr, [com EXCEPT !.pc = "options"])

\* dialog->GetOptions
GetOptions(hr) == DialogStep("options", hr, [com EXCEPT !.pc = "set_options"])

\* dialog->SetOptions
SetOptions(hr) == DialogStep("set_options", hr, [com EXCEPT !.pc = "directory"])

\* get_mm_save_directory
GetSaveDirectory(hr) == DialogStep("directory", hr, [com EXCEPT !.pc = "folder_item"])

\* SHCreateItemFromParsingName, and the wrapper of the shell item
CreateFolderItem(hr) ==
    DialogStep("folder_item", hr,
        UniqueHandle([com EXCEPT !.acquired["folder"] = 1, !.pc = "set_folder"],
                     "shell_item_raii_wrapper", "folder"))

\* dialog->SetFolder, and the end of the block of the shell item
SetFolder(hr) ==
    DialogStep("set_folder", hr,
        reset([com EXCEPT !.pc = "file_type"], "shell_item_raii_wrapper"))

\* dialog->SetFileTypes
SetFileTypes(hr) == DialogStep("file_type", hr, [com EXCEPT !.pc = "file_type_index"])

\* dialog->SetFileTypeIndex
SetFileTypeIndex(hr) == DialogStep("file_type_index", hr, [com EXCEPT !.pc = "extension"])

\* dialog->SetDefaultExtension
SetDefaultExtension(hr) == DialogStep("extension", hr, [com EXCEPT !.pc = "show"])

\* dialog->Show: the user cancels, or picks a file
Show(hr, cancelled) ==
    DialogStep("show", hr,
        IF cancelled THEN return(com, "cancelled") ELSE [com EXCEPT !.pc = "get_result"])

\* dialog->GetResult, and the wrapper constructed after it, which is given
\* dialog and not result_shell_item
GetResult(hr) ==
    DialogStep("get_result", hr,
        UniqueHandle([com EXCEPT !.acquired["result"] = 1, !.pc = "get_path"],
                     "result_sell_item_raii_wrapper", "dialog"))

\* Release was called on an object that its last Release had destroyed:
\* the process is killed, or nothing is noticed
released_twice(c, ub) ==
    IF ub = "crash" /\ \E object \in ComObjects : c.released[object] > c.acquired[object]
    THEN [c EXCEPT !.pc = "crashed", !.status = AccessViolation]
    ELSE c

\* result_shell_item->GetDisplayName, and the return of the path
GetDisplayName(hr, path, ub) ==
    /\ com # NotRun
    /\ com.pc = "get_path"
    /\ com' = released_twice(IF hr # "ok" THEN throw(com, hr) ELSE return(com, path), ub)
    /\ DialogUnchanged

NextDialog ==
    \/ \E call \in {"open", "save", "save_suggesting"} : DialogCalled(call)
    \/ \E hr \in {"ok"} \cup Hresults :
          \/ CoCreateInstance(hr)
          \/ SetFileName(hr)
          \/ GetOptions(hr)
          \/ SetOptions(hr)
          \/ GetSaveDirectory(hr)
          \/ CreateFolderItem(hr)
          \/ SetFolder(hr)
          \/ SetFileTypes(hr)
          \/ SetFileTypeIndex(hr)
          \/ SetDefaultExtension(hr)
          \/ \E cancelled \in BOOLEAN : Show(hr, cancelled)
          \/ GetResult(hr)
          \/ \E path \in DialogPaths, ub \in {"crash", "unnoticed"} :
                GetDisplayName(hr, path, ub)

SpecDialog == InitDialog /\ [][NextDialog]_vars

\* C30: when win_open_mm_sav_file or win_save_mm_sav_file has returned or
\* thrown, every COM object it acquired has been released exactly once, and
\* at no time has an object been released more often than acquired.
C30_ComObjectsReleasedOnce ==
    com # NotRun =>
        /\ \A object \in ComObjects : com.released[object] <= com.acquired[object]
        /\ com.pc \in {"returned", "threw", "crashed"}
              => \A object \in ComObjects : com.released[object] = com.acquired[object]

\* The same, for the calls that end before GetResult succeeds
C30_ReleasedOnceBeforeResult ==
    (com # NotRun /\ com.acquired["result"] = 0) =>
        /\ \A object \in ComObjects : com.released[object] <= com.acquired[object]
        /\ com.pc \in {"returned", "threw"}
              => \A object \in ComObjects : com.released[object] = com.acquired[object]

\* No wrapper holds a handle once the function has returned or thrown
C30_WrappersEmptyAtEnd ==
    (com # NotRun /\ com.pc \in {"returned", "threw"})
        => \A name \in DOMAIN com.wrappers : com.wrappers[name] = null_value

====
